---- MODULE Spec2Model ----
(***************************************************************************)
(* Model of the Planka MCP server's caching layer (src/planka_mcp/cache.py)*)
(* and of the tool handlers that use it (src/planka_mcp/handlers/*.py).    *)
(*                                                                         *)
(* Time is the value of time.time() in whole seconds.  Python dicts are    *)
(* modelled as insertion-ordered sequences of [key, val] items, because    *)
(* cleanup_card_cache relies on the order (sorted() is stable).            *)
(***************************************************************************)
EXTENDS Integers, Sequences, FiniteSets, TLC

VARIABLES
    now,              \* the wall clock, time.time()
    workspace,        \* PlankaCache.workspace: None or a CacheEntry
    board_overviews,  \* PlankaCache.board_overviews: dict board_id -> CacheEntry
    card_details,     \* PlankaCache.card_details: dict card_id -> CacheEntry
    stats,            \* PlankaCache.stats
    ret,              \* what the last call returned or raised
    fetchCount,       \* number of invocations of a fetch function so far
    log,              \* history: one record per completed call
    instances,        \* instances.api_client / instances.cache: set at startup or None
    remote,           \* the Planka server's cards, tasks and card labels
    history,          \* what earlier tool calls have confirmed
    inflight          \* the handler coroutines suspended at an await

vars == <<now, workspace, board_overviews, card_details, stats, ret, fetchCount, log,
          instances, remote, history, inflight>>

cacheVars == <<workspace, board_overviews, card_details, stats>>

toolVars == <<instances, remote, history, inflight>>

(***************************************************************************)
(* Bounds of the model.                                                    *)
(***************************************************************************)
MaxOps == 3        \* calls in one run of the cache-level specification
MaxToolOps == 3    \* tool calls in one run of the tool-level specification
MaxSearchOps == 1  \* searches in one run of the search specification
MaxCards == 11     \* cards on the board that is searched
MaxText == 12      \* characters of a text given to truncate_response
MaxLimit == 12     \* the limit given to truncate_response
MaxItems == 4      \* items of a list given to paginate_results
MaxListed == 3     \* cards on the board that is listed
MaxFaultOps == 1   \* tool calls in one run against the service failing in every class

(***************************************************************************)
(* Program constants.                                                      *)
(***************************************************************************)
WORKSPACE_TTL == 300
BOARD_TTL == 180
CARD_TTL == 60
CLEANUP_THRESHOLD == 300
CLEANUP_KEEP == 100
CHARACTER_LIMIT == 25000

None == "None"

\* The payload of a cache entry is a record; so is the absence of one.
NoData == [nodata |-> TRUE]

Payload(n) == [payload |-> n]

\* the absence of a CacheEntry (Python None)
NoEntry == [data |-> NoData, timestamp |-> -1, ttl |-> 0]

BoardIds == {"board1"}
CardIds == {"card1", "card2"}
Exceptions == {"ConnectError"}

\* The instants the clock is observed at: the expiry boundary of each tier,
\* and, for the specification of the expiry rule, one second either side.
Instants == {0, CARD_TTL, BOARD_TTL, WORKSPACE_TTL}

FineInstants == Instants \cup {CARD_TTL - 1, CARD_TTL + 1, BOARD_TTL - 1, BOARD_TTL + 1,
                               WORKSPACE_TTL - 1, WORKSPACE_TTL + 1}

(***************************************************************************)
(* Python dict as an insertion-ordered sequence of items.                  *)
(***************************************************************************)
DictKeys(d) == {d[i].key : i \in 1..Len(d)}

DictHas(d, k) == \E i \in 1..Len(d) : d[i].key = k

DictGet(d, k) == d[CHOOSE i \in 1..Len(d) : d[i].key = k].val

\* d[k] = v: an existing key keeps its position, a new key goes last
DictSet(d, k, v) ==
    IF DictHas(d, k)
    THEN [i \in 1..Len(d) |-> IF d[i].key = k THEN [key |-> k, val |-> v] ELSE d[i]]
    ELSE Append(d, [key |-> k, val |-> v])

\* del d[k]
DictDel(d, k) == SelectSeq(d, LAMBDA it : it.key # k)

(***************************************************************************)
(* CacheEntry                                                              *)
(***************************************************************************)
CacheEntry(data, timestamp, ttl) == [data |-> data, timestamp |-> timestamp, ttl |-> ttl]

\* mutant: the expiry test made inclusive
is_valid_inclusive(entry, t) == t - entry.timestamp <= entry.ttl

is_valid(entry, t) == t - entry.timestamp < entry.ttl

(***************************************************************************)
(* The fetch function handed to a get-or-fetch call.  It is opaque to the  *)
(* cache: it either returns data or raises.  An outcome is                 *)
(* [ok, data, exc].  In the cache-level specification the n-th fetch       *)
(* returns the payload n, so that every fetch returns different data.      *)
(***************************************************************************)
FetchReturns(d) == [ok |-> TRUE, data |-> d, exc |-> None]

FetchRaises(e) == [ok |-> FALSE, data |-> NoData, exc |-> e]

Return(d) == [kind |-> "return", data |-> d, exc |-> None]

Raise(e) == [kind |-> "raise", data |-> NoData, exc |-> e]

Bump(st, counter) == [st EXCEPT ![counter] = @ + 1]

(***************************************************************************)
(* PlankaCache.get_workspace / get_board_overview / get_card.              *)
(* PlankaCache as a value: [workspace, board_overviews, card_details,      *)
(* stats].  A method takes the cache and returns the cache it leaves       *)
(* behind; a get-or-fetch returns [cache, ret, fetched], where fetched     *)
(* tells whether the fetch function was invoked.  t is time.time().        *)
(***************************************************************************)
NewCache ==
    [workspace |-> NoEntry,
     board_overviews |-> <<>>,
     card_details |-> <<>>,
     stats |-> [workspace_hits |-> 0, workspace_misses |-> 0,
                board_overview_hits |-> 0, board_overview_misses |-> 0,
                card_hits |-> 0, card_misses |-> 0]]

Hit(c, counter, data) ==
    [cache |-> [c EXCEPT !.stats = Bump(@, counter)], ret |-> Return(data), fetched |-> FALSE]

\* mutant: a hit restarts the entry's time to live
get_workspace_sliding(c, t, f) ==
    IF c.workspace # NoEntry /\ is_valid(c.workspace, t)
    THEN Hit([c EXCEPT !.workspace = CacheEntry(@.data, t, WORKSPACE_TTL)],
             "workspace_hits", c.workspace.data)
    ELSE LET missed == [c EXCEPT !.stats = Bump(@, "workspace_misses")] IN
         IF f.ok
         THEN [cache |-> [missed EXCEPT !.workspace = CacheEntry(f.data, t, WORKSPACE_TTL)],
               ret |-> Return(f.data), fetched |-> TRUE]
         ELSE [cache |-> missed, ret |-> Raise(f.exc), fetched |-> TRUE]

\* mutant: a failed fetch leaves an empty entry behind
get_workspace_caches_failure(c, t, f) ==
    IF c.workspace # NoEntry /\ is_valid(c.workspace, t)
    THEN Hit(c, "workspace_hits", c.workspace.data)
    ELSE [cache |-> [c EXCEPT !.stats = Bump(@, "workspace_misses"),
                              !.workspace = CacheEntry(f.data, t, WORKSPACE_TTL)],
          ret |-> IF f.ok THEN Return(f.data) ELSE Raise(f.exc),
          fetched |-> TRUE]

get_workspace(c, t, f) ==
    IF c.workspace # NoEntry /\ is_valid(c.workspace, t)
    THEN Hit(c, "workspace_hits", c.workspace.data)
    ELSE LET missed == [c EXCEPT !.stats = Bump(@, "workspace_misses")] IN
         IF f.ok
         THEN [cache |-> [missed EXCEPT !.workspace = CacheEntry(f.data, t, WORKSPACE_TTL)],
               ret |-> Return(f.data), fetched |-> TRUE]
         ELSE [cache |-> missed, ret |-> Raise(f.exc), fetched |-> TRUE]

get_board_overview(c, t, board_id, f) ==
    IF DictHas(c.board_overviews, board_id)
       /\ is_valid(DictGet(c.board_overviews, board_id), t)
    THEN Hit(c, "board_overview_hits", DictGet(c.board_overviews, board_id).data)
    ELSE LET missed == [c EXCEPT !.stats = Bump(@, "board_overview_misses")] IN
         IF f.ok
         THEN [cache |-> [missed EXCEPT !.board_overviews =
                             DictSet(@, board_id, CacheEntry(f.data, t, BOARD_TTL))],
               ret |-> Return(f.data), fetched |-> TRUE]
         ELSE [cache |-> missed, ret |-> Raise(f.exc), fetched |-> TRUE]

\* mutant: the entry is looked up but never served
get_card_always_fetches(c, t, card_id, f) ==
    LET missed == [c EXCEPT !.stats = Bump(@, "card_misses")] IN
    IF f.ok
    THEN [cache |-> [missed EXCEPT !.card_details =
                        DictSet(@, card_id, CacheEntry(f.data, t, CARD_TTL))],
          ret |-> Return(f.data), fetched |-> TRUE]
    ELSE [cache |-> missed, ret |-> Raise(f.exc), fetched |-> TRUE]

get_card(c, t, card_id, f) ==
    IF DictHas(c.card_details, card_id)
       /\ is_valid(DictGet(c.card_details, card_id), t)
    THEN Hit(c, "card_hits", DictGet(c.card_details, card_id).data)
    ELSE LET missed == [c EXCEPT !.stats = Bump(@, "card_misses")] IN
         IF f.ok
         THEN [cache |-> [missed EXCEPT !.card_details =
                             DictSet(@, card_id, CacheEntry(f.data, t, CARD_TTL))],
               ret |-> Return(f.data), fetched |-> TRUE]
         ELSE [cache |-> missed, ret |-> Raise(f.exc), fetched |-> TRUE]

(***************************************************************************)
(* PlankaCache.invalidate_workspace / invalidate_board / invalidate_card   *)
(***************************************************************************)
invalidate_workspace(c) == [c EXCEPT !.workspace = NoEntry]

\* mutant: the entry is dropped from the wrong tier
invalidate_board_wrong_map(c, board_id) ==
    [c EXCEPT !.workspace = NoEntry]

invalidate_board(c, board_id) ==
    [c EXCEPT !.board_overviews = IF DictHas(@, board_id) THEN DictDel(@, board_id) ELSE @]

invalidate_card(c, card_id) ==
    [c EXCEPT !.card_details = IF DictHas(@, card_id) THEN DictDel(@, card_id) ELSE @]

(***************************************************************************)
(* PlankaCache.cleanup_card_cache                                          *)
(***************************************************************************)
\* sorted(items, key=timestamp): stable, so ties keep their dict order
\* (SortSeq is an insertion sort that moves an item only past newer ones)
SortedByTimestamp(d) ==
    SortSeq(d, LAMBDA a, b : a.val.timestamp < b.val.timestamp)

\* seq[-k:]
LastItems(seq, k) ==
    IF Len(seq) <= k THEN seq ELSE SubSeq(seq, Len(seq) - k + 1, Len(seq))

cleanup_card_cache(c) ==
    [c EXCEPT !.card_details = IF Len(@) > CLEANUP_THRESHOLD
                               THEN LastItems(SortedByTimestamp(@), CLEANUP_KEEP)
                               ELSE @]

(***************************************************************************)
(* The cache the variables hold, and its replacement.                      *)
(***************************************************************************)
TheCache ==
    [workspace |-> workspace, board_overviews |-> board_overviews,
     card_details |-> card_details, stats |-> stats]

SetCache(c) ==
    /\ workspace' = c.workspace
    /\ board_overviews' = c.board_overviews
    /\ card_details' = c.card_details
    /\ stats' = c.stats

(***************************************************************************)
(* instances.api_client and instances.cache: both None until the startup   *)
(* event has set them, one after the other.                                *)
(***************************************************************************)
Started == [api_client |-> TRUE, cache |-> TRUE]

NotStarted == [api_client |-> FALSE, cache |-> FALSE]

(***************************************************************************)
(* The Planka server behind PlankaAPIClient.  One project with one board,  *)
(* one list and one label; cards and tasks come and go.  A card carries    *)
(* the number of writes the server has applied to it, which stands for its *)
(* content: two details of a card with the same number are the same card.  *)
(***************************************************************************)
ProjectIds == {"proj1"}

Lists == [l \in {"list1"} |-> [id |-> l, boardId |-> "board1"]]

Labels == {"label1"}

TaskIds == {"task1", "task2"}

\* The exceptions a request raises, named by class: "HTTP404" is the
\* httpx.HTTPStatusError of raise_for_status() on status 404, "HTTP500"
\* stands for the statuses without a text of their own, and the last one
\* for an exception that is none of the classes handle_api_error tells
\* apart (response.json() on a body that is not JSON).
HTTPStatusErrors == {"HTTP401", "HTTP403", "HTTP404", "HTTP429", "HTTP500"}

TransportFailure == "ConnectError"

FailureClasses ==
    HTTPStatusErrors \cup {"TimeoutException", TransportFailure,
                           "JSONDecodeError: Expecting value"}

\* faults: the ways a request to this service fails in transport
InitRemote ==
    [cards |-> [k \in {"card1"} |-> [listId |-> "list1", boardId |-> "board1", writes |-> 0]],
     tasks |-> [k \in {"task1"} |-> [cardId |-> "card1", isCompleted |-> FALSE]],
     cardLabels |-> {},
     faults |-> {TransportFailure}]

\* response.raise_for_status() passed and response.json() is d
Answers(r, d) == [ok |-> TRUE, data |-> d, exc |-> None, remote |-> r]

\* the request raised e and changed nothing
Refuses(r, e) == [ok |-> FALSE, data |-> NoData, exc |-> e, remote |-> r]

Touch(r, card_id) == [r EXCEPT !.cards[card_id].writes = @ + 1]

CardsOf(r, board_id) == {k \in DOMAIN r.cards : r.cards[k].boardId = board_id}

TasksOf(r, card_id) == {k \in DOMAIN r.tasks : r.tasks[k].cardId = card_id}

\* GET projects, GET users, GET projects/{id}
RemoteGetProjects(r) == Answers(r, [items |-> ProjectIds])

RemoteGetUsers(r) == Answers(r, [items |-> {"user1"}])

RemoteGetProject(r, project_id) ==
    IF project_id \in ProjectIds
    THEN Answers(r, [item |-> [id |-> project_id], included |-> [boards |-> BoardIds]])
    ELSE Refuses(r, "HTTP404")

\* GET boards/{id}
RemoteGetBoard(r, board_id) ==
    IF board_id \in BoardIds
    THEN Answers(r, [item |-> [id |-> board_id],
                     included |->
                       [cards |-> {[id |-> k, listId |-> r.cards[k].listId,
                                    writes |-> r.cards[k].writes] : k \in CardsOf(r, board_id)},
                        lists |-> {Lists[l] : l \in {l \in DOMAIN Lists : Lists[l].boardId = board_id}},
                        labels |-> Labels,
                        cardLabels |-> {cl \in r.cardLabels : cl[1] \in CardsOf(r, board_id)}]])
    ELSE Refuses(r, "HTTP404")

\* GET cards/{id}
RemoteGetCard(r, card_id) ==
    IF card_id \in DOMAIN r.cards
    THEN Answers(r, [item |-> [id |-> card_id, listId |-> r.cards[card_id].listId,
                               boardId |-> r.cards[card_id].boardId,
                               writes |-> r.cards[card_id].writes],
                     included |->
                       [tasks |-> {[id |-> k, isCompleted |-> r.tasks[k].isCompleted] :
                                      k \in TasksOf(r, card_id)},
                        cardLabels |-> {cl \in r.cardLabels : cl[1] = card_id}]])
    ELSE Refuses(r, "HTTP404")

\* POST lists/{id}/cards
RemoteCreateCard(r, list_id) ==
    IF list_id \in DOMAIN Lists /\ CardIds \ DOMAIN r.cards # {}
    THEN LET id == CHOOSE k \in CardIds \ DOMAIN r.cards : TRUE
             card == [listId |-> list_id, boardId |-> Lists[list_id].boardId, writes |-> 0] IN
         Answers([r EXCEPT !.cards = @ @@ (id :> card)],
                 [item |-> [id |-> id, boardId |-> card.boardId]])
    ELSE Refuses(r, "HTTP404")

\* PATCH cards/{id}; whether the answer carries boardId is the server's choice
RemoteUpdateCard(r, card_id, namesBoard) ==
    IF card_id \in DOMAIN r.cards
    THEN Answers(Touch(r, card_id),
                 [item |-> [id |-> card_id,
                            boardId |-> IF namesBoard THEN r.cards[card_id].boardId ELSE None]])
    ELSE Refuses(r, "HTTP404")

\* POST cards/{id}/tasks
RemoteAddTask(r, card_id) ==
    IF card_id \in DOMAIN r.cards /\ TaskIds \ DOMAIN r.tasks # {}
    THEN LET id == CHOOSE k \in TaskIds \ DOMAIN r.tasks : TRUE IN
         Answers([Touch(r, card_id) EXCEPT
                     !.tasks = @ @@ (id :> [cardId |-> card_id, isCompleted |-> FALSE])],
                 [item |-> [id |-> id]])
    ELSE Refuses(r, "HTTP404")

\* PATCH tasks/{id}
RemoteUpdateTask(r, task_id, is_completed) ==
    IF task_id \in DOMAIN r.tasks
    THEN Answers([Touch(r, r.tasks[task_id].cardId) EXCEPT
                     !.tasks[task_id].isCompleted = is_completed],
                 [item |-> [id |-> task_id]])
    ELSE Refuses(r, "HTTP404")

\* POST cards/{id}/labels
RemoteAddCardLabel(r, card_id, label_id) ==
    IF card_id \in DOMAIN r.cards /\ label_id \in Labels
    THEN Answers([Touch(r, card_id) EXCEPT !.cardLabels = @ \cup {<<card_id, label_id>>}],
                 [item |-> [cardId |-> card_id, labelId |-> label_id]])
    ELSE Refuses(r, "HTTP404")

\* DELETE cards/{id}/labels/{labelId}
RemoteRemoveCardLabel(r, card_id, label_id) ==
    IF <<card_id, label_id>> \in r.cardLabels
    THEN Answers([Touch(r, card_id) EXCEPT !.cardLabels = @ \ {<<card_id, label_id>>}],
                 NoData)
    ELSE Refuses(r, "HTTP404")

(***************************************************************************)
(* PlankaAPIClient.request.  A session is the run of requests one tool     *)
(* call makes: the server's state, the requests sent so far, and the       *)
(* position of the request that fails in transport (0: none does).         *)
(***************************************************************************)
\* raised: the exception of the request that failed, if one did
NewSession(r, fail, e) ==
    [remote |-> r, calls |-> <<>>, fail |-> fail, exc |-> e, raised |-> None]

Send(s, method, path, answer) ==
    LET a == IF Len(s.calls) + 1 = s.fail
             THEN Refuses(s.remote, s.exc)
             ELSE answer IN
    [session |-> [s EXCEPT !.remote = a.remote,
                           !.calls = Append(@, [method |-> method, path |-> path, ok |-> a.ok]),
                           !.raised = IF a.ok THEN @ ELSE a.exc],
     ok |-> a.ok, data |-> a.data, exc |-> a.exc]

(***************************************************************************)
(* What earlier tool calls have confirmed.                                 *)
(***************************************************************************)
\* no call is suspended: the calls of a specification that takes them one
\* after the other run from start to return in one step
NoneInFlight == <<>>

NoHistory ==
    [ops |-> 0,
     created |-> {},
     updated |-> {},
     confirmed |-> [k \in CardIds |-> 0]]

(***************************************************************************)
(* History.  Every completed call appends one record: the call, the time,  *)
(* what it returned, how often the fetch function ran and what it did, by  *)
(* how much the tier's counters rose, and the cache entry of the call's    *)
(* tier and key before and after.                                          *)
(***************************************************************************)
EntryOf(c, tier, key) ==
    CASE tier = "workspace" -> c.workspace
      [] tier = "board_overview" ->
            IF DictHas(c.board_overviews, key) THEN DictGet(c.board_overviews, key) ELSE NoEntry
      [] tier = "card" ->
            IF DictHas(c.card_details, key) THEN DictGet(c.card_details, key) ELSE NoEntry

HitCounter(tier) == CASE tier = "workspace" -> "workspace_hits"
                      [] tier = "board_overview" -> "board_overview_hits"
                      [] tier = "card" -> "card_hits"

MissCounter(tier) == CASE tier = "workspace" -> "workspace_misses"
                       [] tier = "board_overview" -> "board_overview_misses"
                       [] tier = "card" -> "card_misses"

NoFetch == [ok |-> FALSE, data |-> NoData, exc |-> None]

CallRecord(op, tier, key, f, after, result, fetched) ==
    [op |-> op, tier |-> tier, key |-> key, at |-> now,
     ret |-> result,
     fetched |-> IF fetched THEN 1 ELSE 0,
     fetch |-> IF fetched THEN f ELSE NoFetch,
     hits |-> after.stats[HitCounter(tier)] - stats[HitCounter(tier)],
     misses |-> after.stats[MissCounter(tier)] - stats[MissCounter(tier)],
     before |-> EntryOf(TheCache, tier, key),
     after |-> EntryOf(after, tier, key)]

(***************************************************************************)
(* Cache-level specification: a client of PlankaCache calls its methods    *)
(* one after the other, with an arbitrary fetch function.                  *)
(***************************************************************************)
FetchOutcomes == {FetchReturns(Payload(fetchCount + 1))} \cup {FetchRaises(e) : e \in Exceptions}

Init ==
    /\ now = 0
    /\ workspace = NewCache.workspace
    /\ board_overviews = NewCache.board_overviews
    /\ card_details = NewCache.card_details
    /\ stats = NewCache.stats
    /\ ret = Return(NoData)
    /\ fetchCount = 0
    /\ log = <<>>
    /\ instances = Started
    /\ remote = InitRemote
    /\ history = NoHistory
    /\ inflight = NoneInFlight

Tick ==
    /\ \E t \in Instants : t > now /\ now' = t
    /\ UNCHANGED <<cacheVars, ret, fetchCount, log>>
    /\ UNCHANGED toolVars

\* a get-or-fetch call that came back with g = [cache, ret, fetched]
GetCalled(tier, key, f, g) ==
    /\ SetCache(g.cache)
    /\ ret' = g.ret
    /\ fetchCount' = fetchCount + (IF g.fetched THEN 1 ELSE 0)
    /\ log' = Append(log, CallRecord("get", tier, key, f, g.cache, g.ret, g.fetched))
    /\ UNCHANGED now
    /\ UNCHANGED toolVars

\* an invalidation that left the cache c behind
InvalidateCalled(tier, key, c) ==
    /\ SetCache(c)
    /\ ret' = Return(NoData)
    /\ log' = Append(log, CallRecord("invalidate", tier, key, NoFetch, c, Return(NoData), FALSE))
    /\ UNCHANGED <<now, fetchCount>>
    /\ UNCHANGED toolVars

CallGetWorkspace ==
    /\ Len(log) < MaxOps
    /\ \E f \in FetchOutcomes :
          GetCalled("workspace", None, f, get_workspace(TheCache, now, f))

CallGetBoardOverview ==
    /\ Len(log) < MaxOps
    /\ \E b \in BoardIds, f \in FetchOutcomes :
          GetCalled("board_overview", b, f, get_board_overview(TheCache, now, b, f))

CallGetCard ==
    /\ Len(log) < MaxOps
    /\ \E c \in CardIds, f \in FetchOutcomes :
          GetCalled("card", c, f, get_card(TheCache, now, c, f))

CallInvalidateWorkspace ==
    /\ Len(log) < MaxOps
    /\ InvalidateCalled("workspace", None, invalidate_workspace(TheCache))

CallInvalidateBoard ==
    /\ Len(log) < MaxOps
    /\ \E b \in BoardIds :
          InvalidateCalled("board_overview", b, invalidate_board(TheCache, b))

CallInvalidateCard ==
    /\ Len(log) < MaxOps
    /\ \E c \in CardIds :
          InvalidateCalled("card", c, invalidate_card(TheCache, c))

TickFine ==
    /\ Len(log) > 0    \* only differences of clock readings matter
    /\ \E t \in FineInstants : t > now /\ now' = t
    /\ UNCHANGED <<cacheVars, ret, fetchCount, log>>
    /\ UNCHANGED toolVars

Next ==
    \/ Tick
    \/ CallGetWorkspace
    \/ CallGetBoardOverview
    \/ CallGetCard
    \/ CallInvalidateWorkspace
    \/ CallInvalidateBoard
    \/ CallInvalidateCard

Spec == Init /\ [][Next]_vars

\* The same client, calling only get-or-fetch, with the clock observed one
\* second either side of every expiry boundary.
NextTtl ==
    \/ TickFine
    \/ CallGetWorkspace
    \/ CallGetBoardOverview
    \/ CallGetCard

SpecTtl == Init /\ [][NextTtl]_vars

(***************************************************************************)
(* Housekeeping specification: cleanup_card_cache run on a card-detail map *)
(* of a given size, filled the way the tests fill it (one entry per card   *)
(* id, the fetch times following a pattern).                               *)
(***************************************************************************)
CleanupSizes == {CLEANUP_KEEP - 1, CLEANUP_KEEP, CLEANUP_KEEP + 1, 110, 120,
                 CLEANUP_THRESHOLD, CLEANUP_THRESHOLD + 1, CLEANUP_THRESHOLD + 10}

StampPatterns == {"ascending", "descending", "flat", "pairs", "zigzag"}

Stamp(pattern, i) ==
    CASE pattern = "ascending" -> 1000 + i
      [] pattern = "descending" -> 1000 - i
      [] pattern = "flat" -> 1000
      [] pattern = "pairs" -> 1000 + (i \div 2)
      [] pattern = "zigzag" -> 1000 + (i % 7)

Filled(n, pattern) ==
    [i \in 1..n |-> [key |-> i,
                     val |-> CacheEntry(Payload(i), Stamp(pattern, i), CARD_TTL)]]

InitCleanup ==
    /\ now = 2000
    /\ workspace = NewCache.workspace
    /\ board_overviews = NewCache.board_overviews
    /\ \E n \in CleanupSizes, p \in StampPatterns : card_details = Filled(n, p)
    /\ stats = NewCache.stats
    /\ ret = Return(NoData)
    /\ fetchCount = 0
    /\ log = <<>>
    /\ instances = Started
    /\ remote = InitRemote
    /\ history = NoHistory
    /\ inflight = NoneInFlight

CallCleanup ==
    /\ Len(log) < MaxOps
    /\ SetCache(cleanup_card_cache(TheCache))
    /\ ret' = Return(NoData)
    /\ log' = Append(log, [op |-> "cleanup", tier |-> "card", key |-> None, at |-> now,
                           dictBefore |-> card_details, dictAfter |-> card_details'])
    /\ UNCHANGED <<now, fetchCount>>
    /\ UNCHANGED toolVars

NextCleanup == CallCleanup

SpecCleanup == InitCleanup /\ [][NextCleanup]_vars

(***************************************************************************)
(* Growth specification: get_card called for ever new card ids (the ids    *)
(* are taken in order: which id is new does not matter), and again for a   *)
(* cached one.  The clock stands still: nothing here depends on it.        *)
(***************************************************************************)
FillGetCard ==
    /\ \E c \in {1, Len(card_details) + 1} :
          /\ c <= CLEANUP_THRESHOLD + 2
          /\ stats["card_hits"] < MaxOps
          /\ LET g == get_card(TheCache, now, c, FetchReturns(Payload(c))) IN
                /\ SetCache(g.cache)
                /\ ret' = g.ret
                /\ fetchCount' = fetchCount + (IF g.fetched THEN 1 ELSE 0)
    /\ UNCHANGED <<now, log>>
    /\ UNCHANGED toolVars

NextFill == FillGetCard

SpecFill == Init /\ [][NextFill]_vars

(***************************************************************************)
(* utils.py: handle_api_error and ResponseFormatter.truncate_response.     *)
(* An exception is named by its class ("HTTP404" is an HTTPStatusError     *)
(* with status 404); a tool's text is a record that keeps what the text    *)
(* says.                                                                   *)
(***************************************************************************)
ErrorText(text, detail) == [kind |-> "error", text |-> text, detail |-> detail]

\* mutant: the test for ConnectError comes too late
handle_api_error_forgets_connect(e) ==
    IF e \in HTTPStatusErrors
    THEN CASE e = "HTTP401" -> ErrorText("Error: Invalid API credentials.", "")
           [] e = "HTTP403" -> ErrorText("Error: You don't have permission to access this resource.", "")
           [] e = "HTTP404" -> ErrorText("Error: Resource not found.", "")
           [] e = "HTTP429" -> ErrorText("Error: Rate limit exceeded.", "")
           [] OTHER -> ErrorText("Error: API request failed.", e)
    ELSE IF e = "TimeoutException"
    THEN ErrorText("Error: Request timed out.", "")
    ELSE ErrorText("Error: Unexpected error", e)

handle_api_error(e) ==
    IF e \in HTTPStatusErrors
    THEN CASE e = "HTTP401" -> ErrorText("Error: Invalid API credentials.", "")
           [] e = "HTTP403" -> ErrorText("Error: You don't have permission to access this resource.", "")
           [] e = "HTTP404" -> ErrorText("Error: Resource not found.", "")
           [] e = "HTTP429" -> ErrorText("Error: Rate limit exceeded.", "")
           [] OTHER -> ErrorText("Error: API request failed.", e)
    ELSE IF e = "TimeoutException"
    THEN ErrorText("Error: Request timed out.", "")
    ELSE IF e = "ConnectError"
    THEN ErrorText("Error: Cannot connect to Planka server.", "")
    ELSE ErrorText("Error: Unexpected error", e)

\* a formatted answer of len characters
Content(of, body, len) ==
    [kind |-> "content", of |-> of, body |-> body, len |-> len, truncated |-> FALSE]

\* content[:int(limit * 0.6)] followed by the warning
truncate_response(content) ==
    IF content.len <= CHARACTER_LIMIT
    THEN content
    ELSE [content EXCEPT !.len = (CHARACTER_LIMIT * 6) \div 10, !.truncated = TRUE]

Confirmation(text, id) == [kind |-> "confirmation", text |-> text, id |-> id]

\* what a handler leaves behind: the cache, the session and the returned text
Done(c, s, r) == [cache |-> c, session |-> s, ret |-> r]

(***************************************************************************)
(* The handlers are written stage by stage: a stage is the code that runs  *)
(* once an awaited call has come back, and takes what came back as its     *)
(* last parameter.  The stages of a handler are listed last one first.     *)
(***************************************************************************)
TheOne(S) == CHOOSE x \in S : TRUE

\* the outcome of a fetch function, as the cache sees it
AsFetch(f) == [ok |-> f.ok, data |-> f.data, exc |-> f.exc]

\* a get-or-fetch through the cache: g is what the cache method came back
\* with, f the fetch function's run, which happened only if g.fetched
Looked(g, s, f) ==
    [cache |-> g.cache, ret |-> g.ret, session |-> IF g.fetched THEN f.session ELSE s]

(***************************************************************************)
(* handlers/workspace.py: fetch_workspace_data.  The loops over projects   *)
(* and over a project's boards run once each, the server having one        *)
(* project with one board.                                                 *)
(***************************************************************************)
FetchFailed(p) == [session |-> p.session, ok |-> FALSE, data |-> NoData, exc |-> p.exc]

\* mutant: a failed board detail is skipped and the rest is returned
fetch_workspace_board_partial(projects, users, board_detail) ==
    [session |-> board_detail.session, ok |-> TRUE, exc |-> None,
     data |-> [projects |-> projects,
               boards |-> IF board_detail.ok THEN {board_detail.data.item.id} ELSE {},
               lists |-> IF board_detail.ok
                         THEN [l \in {x.id : x \in board_detail.data.included.lists} |->
                                  CHOOSE x \in board_detail.data.included.lists : x.id = l]
                         ELSE <<>>,
               labels |-> IF board_detail.ok THEN board_detail.data.included.labels ELSE {},
               users |-> users,
               card_labels |-> IF board_detail.ok
                               THEN board_detail.data.included.cardLabels
                               ELSE {}]]

fetch_workspace_board(projects, users, board_detail) ==
    IF ~board_detail.ok
    THEN FetchFailed(board_detail)
    ELSE [session |-> board_detail.session, ok |-> TRUE, exc |-> None,
          data |-> [projects |-> projects,
                    boards |-> {board_detail.data.item.id},
                    lists |-> [l \in {x.id : x \in board_detail.data.included.lists} |->
                                  CHOOSE x \in board_detail.data.included.lists : x.id = l],
                    labels |-> board_detail.data.included.labels,
                    users |-> users,
                    card_labels |-> board_detail.data.included.cardLabels]]

fetch_workspace_project(projects, users, project_detail) ==
    IF ~project_detail.ok
    THEN FetchFailed(project_detail)
    ELSE fetch_workspace_board(projects, users,
            Send(project_detail.session, "GET",
                 <<"boards", TheOne(project_detail.data.included.boards)>>,
                 RemoteGetBoard(project_detail.session.remote,
                                TheOne(project_detail.data.included.boards))))

fetch_workspace_users(projects, users) ==
    IF ~users.ok
    THEN FetchFailed(users)
    ELSE fetch_workspace_project(projects, users.data.items,
            Send(users.session, "GET", <<"projects", TheOne(projects)>>,
                 RemoteGetProject(users.session.remote, TheOne(projects))))

fetch_workspace_projects(projects) ==
    IF ~projects.ok
    THEN FetchFailed(projects)
    ELSE fetch_workspace_users(projects.data.items,
            Send(projects.session, "GET", <<"users">>,
                 RemoteGetUsers(projects.session.remote)))

fetch_workspace_data(inst, s) ==
    IF ~inst.api_client
    THEN [session |-> s, ok |-> FALSE, data |-> NoData,
          exc |-> "RuntimeError: API client not initialized"]
    ELSE fetch_workspace_projects(Send(s, "GET", <<"projects">>, RemoteGetProjects(s.remote)))

LookupWorkspace(c, t, s, f) == Looked(get_workspace(c, t, AsFetch(f)), s, f)

\* instances.cache.get_workspace(fetch_workspace_data)
CachedWorkspace(inst, c, t, s) == LookupWorkspace(c, t, s, fetch_workspace_data(inst, s))

(***************************************************************************)
(* handlers/workspace.py: planka_get_workspace                             *)
(***************************************************************************)
get_workspace_format(w, response_format, len) ==
    IF w.ret.kind = "raise"
    THEN Done(w.cache, w.session, handle_api_error(w.ret.exc))
    ELSE Done(w.cache, w.session, truncate_response(Content("workspace", w.ret.data, len)))

planka_get_workspace(inst, c, t, s, response_format, len) ==
    IF ~inst.cache
    THEN Done(c, s, [kind |-> "raised", exc |-> "RuntimeError: Cache not initialized"])
    ELSE get_workspace_format(CachedWorkspace(inst, c, t, s), response_format, len)

(***************************************************************************)
(* handlers/cards.py.  list_id, label_filter, offset and limit of          *)
(* planka_list_cards are left at their defaults (no filter, first page of  *)
(* 50).  The module never imports json, so the branch of either read tool  *)
(* that calls json.dumps raises NameError.                                 *)
(***************************************************************************)
ResponseFormats == {"markdown", "json"}

JsonNotImported == "NameError: name 'json' is not defined"

list_cards_format(c, board_detail, response_format, len) ==
    IF ~board_detail.ok
    THEN Done(c, board_detail.session, handle_api_error(board_detail.exc))
    ELSE IF response_format = "markdown"
    THEN Done(c, board_detail.session,
              truncate_response(Content("cards", board_detail.data.included.cards, len)))
    ELSE Done(c, board_detail.session, handle_api_error(JsonNotImported))

planka_list_cards(inst, c, s, board_id, response_format, len) ==
    IF ~inst.api_client
    THEN Done(c, s, handle_api_error("RuntimeError: API client not initialized"))
    ELSE list_cards_format(c, Send(s, "GET", <<"boards", board_id>>,
                                   RemoteGetBoard(s.remote, board_id)),
                           response_format, len)

\* full_card: the item with the included data merged in
full_card(card_detail) ==
    [session |-> card_detail.session, ok |-> card_detail.ok, exc |-> card_detail.exc,
     data |-> IF card_detail.ok
              THEN [id |-> card_detail.data.item.id,
                    listId |-> card_detail.data.item.listId,
                    boardId |-> card_detail.data.item.boardId,
                    writes |-> card_detail.data.item.writes,
                    tasks |-> card_detail.data.included.tasks,
                    _included_cardLabels |-> card_detail.data.included.cardLabels]
              ELSE NoData]

fetch_card(s, card_id) ==
    full_card(Send(s, "GET", <<"cards", card_id>>, RemoteGetCard(s.remote, card_id)))

LookupCard(c, t, s, card_id, f) == Looked(get_card(c, t, card_id, AsFetch(f)), s, f)

\* instances.cache.get_card(params.card_id, fetch_card)
CachedCard(c, t, s, card_id) == LookupCard(c, t, s, card_id, fetch_card(s, card_id))

get_card_format(w, card, response_format, len) ==
    IF w.ret.kind = "raise"
    THEN Done(w.cache, w.session, handle_api_error(w.ret.exc))
    ELSE IF response_format = "markdown"
    THEN Done(w.cache, w.session, truncate_response(Content("card", card, len)))
    ELSE Done(w.cache, w.session, handle_api_error(JsonNotImported))

get_card_context(inst, t, k, response_format, len) ==
    IF k.ret.kind = "raise"
    THEN Done(k.cache, k.session, handle_api_error(k.ret.exc))
    ELSE get_card_format(CachedWorkspace(inst, k.cache, t, k.session),
                         k.ret.data, response_format, len)

planka_get_card(inst, c, t, s, card_id, response_format, len) ==
    IF ~inst.api_client \/ ~inst.cache
    THEN Done(c, s, handle_api_error("RuntimeError: API client or Cache not initialized"))
    ELSE get_card_context(inst, t, CachedCard(c, t, s, card_id), response_format, len)

\* mutant: the board tier is left alone
create_card_posted_keeps_board(w, board_id, response) ==
    IF ~response.ok
    THEN Done(w.cache, response.session, handle_api_error(response.exc))
    ELSE Done(w.cache, response.session,
              Confirmation("Created card", response.data.item.id))

create_card_posted(w, board_id, response) ==
    IF ~response.ok
    THEN Done(w.cache, response.session, handle_api_error(response.exc))
    ELSE Done(invalidate_board(w.cache, board_id), response.session,
              Confirmation("Created card", response.data.item.id))

\* mutant: the POST is sent before the list is looked up
create_card_verify_after_post(w, list_id) ==
    IF w.ret.kind = "raise"
    THEN Done(w.cache, w.session, handle_api_error(w.ret.exc))
    ELSE create_card_posted(w, IF list_id \in DOMAIN w.ret.data.lists
                               THEN w.ret.data.lists[list_id].boardId
                               ELSE None,
            Send(w.session, "POST", <<"lists", list_id, "cards">>,
                 RemoteCreateCard(w.session.remote, list_id)))

create_card_verify(w, list_id) ==
    IF w.ret.kind = "raise"
    THEN Done(w.cache, w.session, handle_api_error(w.ret.exc))
    ELSE IF list_id \notin DOMAIN w.ret.data.lists
    THEN Done(w.cache, w.session, ErrorText("Error: List ID not found.", list_id))
    ELSE create_card_posted(w, w.ret.data.lists[list_id].boardId,
            Send(w.session, "POST", <<"lists", list_id, "cards">>,
                 RemoteCreateCard(w.session.remote, list_id)))

planka_create_card(inst, c, t, s, list_id) ==
    IF ~inst.api_client \/ ~inst.cache
    THEN Done(c, s, handle_api_error("RuntimeError: API client or Cache not initialized"))
    ELSE create_card_verify(CachedWorkspace(inst, c, t, s), list_id)

\* instances.cache.invalidate_card(params.card_id), and invalidate_board
\* if the answer's item carries boardId
update_card_invalidate(c, card_id, card) ==
    IF card.boardId # None
    THEN invalidate_board(invalidate_card(c, card_id), card.boardId)
    ELSE invalidate_card(c, card_id)

\* mutant: the card tier is left alone
update_card_patched_keeps_card(c, card_id, response) ==
    IF ~response.ok
    THEN Done(c, response.session, handle_api_error(response.exc))
    ELSE Done(IF response.data.item.boardId # None
              THEN invalidate_board(c, response.data.item.boardId)
              ELSE c,
              response.session, Confirmation("Updated card", response.data.item.id))

update_card_patched(c, card_id, response) ==
    IF ~response.ok
    THEN Done(c, response.session, handle_api_error(response.exc))
    ELSE Done(update_card_invalidate(c, card_id, response.data.item), response.session,
              Confirmation("Updated card", response.data.item.id))

planka_update_card(inst, c, s, card_id, namesBoard) ==
    IF ~inst.api_client \/ ~inst.cache
    THEN Done(c, s, handle_api_error("RuntimeError: API client or Cache not initialized"))
    ELSE update_card_patched(c, card_id,
            Send(s, "PATCH", <<"cards", card_id>>,
                 RemoteUpdateCard(s.remote, card_id, namesBoard)))

(***************************************************************************)
(* handlers/tasks_labels.py                                                *)
(***************************************************************************)
\* mutant: the card tier is invalidated whether or not the write came back
add_task_posted_invalidates_first(c, card_id, task_response) ==
    IF ~task_response.ok
    THEN Done(invalidate_card(c, card_id), task_response.session,
              handle_api_error(task_response.exc))
    ELSE Done(invalidate_card(c, card_id), task_response.session,
              Confirmation("Added task", task_response.data.item.id))

add_task_posted(c, card_id, task_response) ==
    IF ~task_response.ok
    THEN Done(c, task_response.session, handle_api_error(task_response.exc))
    ELSE Done(invalidate_card(c, card_id), task_response.session,
              Confirmation("Added task", task_response.data.item.id))

planka_add_task(inst, c, s, card_id) ==
    IF ~inst.api_client \/ ~inst.cache
    THEN Done(c, s, handle_api_error("RuntimeError: API client or Cache not initialized"))
    ELSE add_task_posted(c, card_id,
            Send(s, "POST", <<"cards", card_id, "tasks">>, RemoteAddTask(s.remote, card_id)))

\* the card tier is left alone: "The cache will expire naturally within 1 minute"
update_task_patched(c, response) ==
    IF ~response.ok
    THEN Done(c, response.session, handle_api_error(response.exc))
    ELSE Done(c, response.session, Confirmation("Marked task", response.data.item.id))

\* mutant: a PATCH that failed is sent once more
planka_update_task_retries(inst, c, s, task_id, is_completed) ==
    IF ~inst.api_client
    THEN Done(c, s, handle_api_error("RuntimeError: API client not initialized"))
    ELSE IF Send(s, "PATCH", <<"tasks", task_id>>,
                 RemoteUpdateTask(s.remote, task_id, is_completed)).ok
    THEN update_task_patched(c,
            Send(s, "PATCH", <<"tasks", task_id>>,
                 RemoteUpdateTask(s.remote, task_id, is_completed)))
    ELSE update_task_patched(c,
            Send(Send(s, "PATCH", <<"tasks", task_id>>,
                      RemoteUpdateTask(s.remote, task_id, is_completed)).session,
                 "PATCH", <<"tasks", task_id>>,
                 RemoteUpdateTask(s.remote, task_id, is_completed)))

planka_update_task(inst, c, s, task_id, is_completed) ==
    IF ~inst.api_client
    THEN Done(c, s, handle_api_error("RuntimeError: API client not initialized"))
    ELSE update_task_patched(c,
            Send(s, "PATCH", <<"tasks", task_id>>,
                 RemoteUpdateTask(s.remote, task_id, is_completed)))

add_card_label_named(w, card_id, label_id) ==
    IF w.ret.kind = "raise"
    THEN Done(w.cache, w.session, handle_api_error(w.ret.exc))
    ELSE Done(invalidate_card(w.cache, card_id), w.session,
              Confirmation("Added label", label_id))

add_card_label_posted(inst, c, t, card_id, label_id, response) ==
    IF ~response.ok
    THEN Done(c, response.session, handle_api_error(response.exc))
    ELSE add_card_label_named(CachedWorkspace(inst, c, t, response.session),
                              card_id, label_id)

planka_add_card_label(inst, c, t, s, card_id, label_id) ==
    IF ~inst.api_client \/ ~inst.cache
    THEN Done(c, s, handle_api_error("RuntimeError: API client or Cache not initialized"))
    ELSE add_card_label_posted(inst, c, t, card_id, label_id,
            Send(s, "POST", <<"cards", card_id, "labels">>,
                 RemoteAddCardLabel(s.remote, card_id, label_id)))

remove_card_label_deleted(w, card_id, label_id, response) ==
    IF ~response.ok
    THEN Done(w.cache, response.session, handle_api_error(response.exc))
    ELSE Done(invalidate_card(w.cache, card_id), response.session,
              Confirmation("Removed label", label_id))

remove_card_label_named(w, card_id, label_id) ==
    IF w.ret.kind = "raise"
    THEN Done(w.cache, w.session, handle_api_error(w.ret.exc))
    ELSE remove_card_label_deleted(w, card_id, label_id,
            Send(w.session, "DELETE", <<"cards", card_id, "labels", label_id>>,
                 RemoteRemoveCardLabel(w.session.remote, card_id, label_id)))

planka_remove_card_label(inst, c, t, s, card_id, label_id) ==
    IF ~inst.api_client \/ ~inst.cache
    THEN Done(c, s, handle_api_error("RuntimeError: API client or Cache not initialized"))
    ELSE remove_card_label_named(CachedWorkspace(inst, c, t, s), card_id, label_id)

(***************************************************************************)
(* PlankaCache.get_board_overview called with a fetch of the board's       *)
(* detail: the one way the board tier is ever filled (no tool calls it).   *)
(***************************************************************************)
LookupBoard(c, t, s, board_id, f) ==
    Looked(get_board_overview(c, t, board_id, AsFetch(f)), s, f)

board_overview_answer(k) ==
    Done(k.cache, k.session,
         IF k.ret.kind = "raise"
         THEN [kind |-> "raised", exc |-> k.ret.exc]
         ELSE Content("board", k.ret.data, 0))

client_get_board_overview(c, t, s, board_id) ==
    board_overview_answer(
        LookupBoard(c, t, s, board_id,
                    Send(s, "GET", <<"boards", board_id>>, RemoteGetBoard(s.remote, board_id))))

(***************************************************************************)
(* Tool-level specification: after startup, a client calls the tools one   *)
(* after the other while the clock advances and any one request of a call  *)
(* may fail in transport.  log holds the record of the last call only;     *)
(* history keeps what the calls before it confirmed.                       *)
(***************************************************************************)
CardMutators == {"planka_update_card", "planka_add_task", "planka_update_task",
                 "planka_add_card_label", "planka_remove_card_label"}

\* the card a card-changing tool call is about, None if the server knows none
AffectedCard(op, args, r) ==
    IF op = "planka_update_task"
    THEN IF args.task_id \in DOMAIN r.tasks THEN r.tasks[args.task_id].cardId ELSE None
    ELSE args.card_id

Remember(h, op, args, res) ==
    LET isConfirmed == res.ret.kind = "confirmation" IN
    [ops |-> h.ops + 1,
     created |-> IF op = "planka_create_card" /\ isConfirmed
                 THEN h.created \cup {res.ret.id}
                 ELSE h.created,
     updated |-> IF op = "planka_update_card" /\ isConfirmed
                 THEN h.updated \cup {args.card_id}
                 ELSE IF op = "planka_get_card"
                 THEN h.updated \ {args.card_id}
                 ELSE h.updated,
     confirmed |-> IF op \in CardMutators /\ isConfirmed
                   THEN LET card == AffectedCard(op, args, res.session.remote) IN
                        [h.confirmed EXCEPT ![card] = res.session.remote.cards[card].writes]
                   ELSE h.confirmed]

ToolReturned(op, args, res) ==
    /\ SetCache(res.cache)
    /\ remote' = res.session.remote
    /\ ret' = res.ret
    /\ log' = <<[op |-> op, args |-> args, at |-> now, ret |-> res.ret,
                 calls |-> res.session.calls, raised |-> res.session.raised,
                 before |-> TheCache, hist |-> history]>>
    /\ history' = Remember(history, op, args, res)
    /\ UNCHANGED <<now, fetchCount, instances, inflight>>

ContentLengths == {CHARACTER_LIMIT, CHARACTER_LIMIT + 1}

\* response_format and the length of the formatted answer; the cards tools
\* never get as far as an answer in JSON
ReadsOfCards == {<<"markdown", len>> : len \in ContentLengths} \cup {<<"json", 0>>}

ReadsOfWorkspace == ResponseFormats \X ContentLengths

\* Positions of the request that fails.  A tool sends one request of its
\* own and, on a workspace miss, the four of fetch_workspace_data.
\* planka_get_workspace is failed at each of the four; in the other tools
\* the first and the last stand for them.
WorkspaceRequests == 4

FailsOfOne == {0, 1}

FailsOfWorkspace == 0..WorkspaceRequests

FailsBeforeWorkspace == {0, 1, 2, WorkspaceRequests + 1}

FailsAfterWorkspace == {0, 1, WorkspaceRequests, WorkspaceRequests + 1}

\* The clock as the tools see it: a call falls on the instant of the call
\* before it or on the expiry of a card or workspace entry stored at 0.
ToolInstants == {0, CARD_TTL, WORKSPACE_TTL}

\* the entries the cache holds, of all tiers
EntriesOf(c) ==
    (IF c.workspace # NoEntry THEN {c.workspace} ELSE {})
    \cup {c.board_overviews[i].val : i \in 1..Len(c.board_overviews)}
    \cup {c.card_details[i].val : i \in 1..Len(c.card_details)}

ListIdsAsked == DOMAIN Lists \cup {"nolist"}

InitTools ==
    /\ now = 0
    /\ workspace = NewCache.workspace
    /\ board_overviews = NewCache.board_overviews
    /\ card_details = NewCache.card_details
    /\ stats = NewCache.stats
    /\ ret = Return(NoData)
    /\ fetchCount = 0
    /\ log = <<>>
    /\ instances \in {Started, NotStarted}
    /\ remote = InitRemote
    /\ history = NoHistory
    /\ inflight = NoneInFlight

\* the classes the request at position fail fails in (0: none fails)
FaultsAt(fail) == IF fail = 0 THEN {TransportFailure} ELSE remote.faults

\* the tool calls of one run
ToolBudget == IF remote.faults = {TransportFailure} THEN MaxToolOps ELSE MaxFaultOps

ToolTick ==
    /\ history.ops < MaxToolOps
    /\ \E t \in ToolInstants :
          /\ t > now
          \* the passing of time shows only in an entry that expires
          /\ \E e \in EntriesOf(TheCache) : is_valid(e, now) /\ ~is_valid(e, t)
          /\ now' = t
    /\ UNCHANGED <<cacheVars, ret, fetchCount, log>>
    /\ UNCHANGED toolVars

ToolGetWorkspace ==
    /\ history.ops < ToolBudget
    /\ \E rd \in ReadsOfWorkspace, fail \in FailsOfWorkspace : \E e \in FaultsAt(fail) :
          ToolReturned("planka_get_workspace", [response_format |-> rd[1]],
                       planka_get_workspace(instances, TheCache, now,
                                            NewSession(remote, fail, e), rd[1], rd[2]))

ToolListCards ==
    /\ history.ops < ToolBudget
    /\ \E b \in BoardIds, rd \in ReadsOfCards, fail \in FailsOfOne : \E e \in FaultsAt(fail) :
          ToolReturned("planka_list_cards", [board_id |-> b, response_format |-> rd[1]],
                       planka_list_cards(instances, TheCache,
                                         NewSession(remote, fail, e), b, rd[1], rd[2]))

ToolGetCard ==
    /\ history.ops < ToolBudget
    /\ \E k \in CardIds, rd \in ReadsOfCards, fail \in FailsBeforeWorkspace : \E e \in FaultsAt(fail) :
          ToolReturned("planka_get_card", [card_id |-> k, response_format |-> rd[1]],
                       planka_get_card(instances, TheCache, now,
                                       NewSession(remote, fail, e), k, rd[1], rd[2]))

ToolCreateCard ==
    /\ history.ops < ToolBudget
    /\ CardIds \ DOMAIN remote.cards # {}
    /\ \E l \in ListIdsAsked, fail \in FailsAfterWorkspace : \E e \in FaultsAt(fail) :
          ToolReturned("planka_create_card", [list_id |-> l],
                       planka_create_card(instances, TheCache, now,
                                          NewSession(remote, fail, e), l))

ToolUpdateCard ==
    /\ history.ops < ToolBudget
    /\ \E k \in CardIds, namesBoard \in BOOLEAN, fail \in FailsOfOne : \E e \in FaultsAt(fail) :
          ToolReturned("planka_update_card", [card_id |-> k, namesBoard |-> namesBoard],
                       planka_update_card(instances, TheCache,
                                          NewSession(remote, fail, e), k, namesBoard))

ToolAddTask ==
    /\ history.ops < ToolBudget
    /\ TaskIds \ DOMAIN remote.tasks # {}
    /\ \E k \in CardIds, fail \in FailsOfOne : \E e \in FaultsAt(fail) :
          ToolReturned("planka_add_task", [card_id |-> k],
                       planka_add_task(instances, TheCache, NewSession(remote, fail, e), k))

ToolUpdateTask ==
    /\ history.ops < ToolBudget
    /\ \E k \in TaskIds, done \in BOOLEAN, fail \in FailsOfOne : \E e \in FaultsAt(fail) :
          ToolReturned("planka_update_task", [task_id |-> k, is_completed |-> done],
                       planka_update_task(instances, TheCache,
                                          NewSession(remote, fail, e), k, done))

ToolAddCardLabel ==
    /\ history.ops < ToolBudget
    /\ \E k \in CardIds, l \in Labels, fail \in FailsBeforeWorkspace : \E e \in FaultsAt(fail) :
          ToolReturned("planka_add_card_label", [card_id |-> k, label_id |-> l],
                       planka_add_card_label(instances, TheCache, now,
                                             NewSession(remote, fail, e), k, l))

ToolRemoveCardLabel ==
    /\ history.ops < ToolBudget
    /\ \E k \in CardIds, l \in Labels, fail \in FailsAfterWorkspace : \E e \in FaultsAt(fail) :
          ToolReturned("planka_remove_card_label", [card_id |-> k, label_id |-> l],
                       planka_remove_card_label(instances, TheCache, now,
                                                NewSession(remote, fail, e), k, l))

ClientGetBoardOverview ==
    /\ history.ops < ToolBudget
    /\ instances.api_client /\ instances.cache
    /\ \E b \in BoardIds, fail \in FailsOfOne : \E e \in FaultsAt(fail) :
          ToolReturned("get_board_overview", [board_id |-> b],
                       client_get_board_overview(TheCache, now, NewSession(remote, fail, e), b))

NextTools ==
    \/ ToolTick
    \/ ToolGetWorkspace
    \/ ToolListCards
    \/ ToolGetCard
    \/ ToolCreateCard
    \/ ToolUpdateCard
    \/ ToolAddTask
    \/ ToolUpdateTask
    \/ ToolAddCardLabel
    \/ ToolRemoveCardLabel
    \/ ClientGetBoardOverview

SpecTools == InitTools /\ [][NextTools]_vars

\* The same tools against a service whose requests fail in every class.
InitFaults ==
    /\ now = 0
    /\ workspace = NewCache.workspace
    /\ board_overviews = NewCache.board_overviews
    /\ card_details = NewCache.card_details
    /\ stats = NewCache.stats
    /\ ret = Return(NoData)
    /\ fetchCount = 0
    /\ log = <<>>
    /\ instances = Started
    /\ remote = [InitRemote EXCEPT !.faults = FailureClasses]
    /\ history = NoHistory
    /\ inflight = NoneInFlight

SpecFaults == InitFaults /\ [][NextTools]_vars

(***************************************************************************)
(* handlers/search.py: planka_find_and_get_card.  A text is the sequence   *)
(* of its characters, so that lower() and the substring test of `in` are   *)
(* computed.  The board holds up to MaxCards cards, listed in the order    *)
(* of SearchCardIds.                                                       *)
(***************************************************************************)
SearchCardIds ==
    <<"c01", "c02", "c03", "c04", "c05", "c06", "c07", "c08", "c09", "c10",
      "c11", "c12", "c13", "c14">>

\* str.lower() on the letters that occur
lower_char(ch) ==
    CASE ch = "B" -> "b"
      [] ch = "U" -> "u"
      [] ch = "G" -> "g"
      [] ch = "F" -> "f"
      [] OTHER -> ch

lower(text) == [i \in 1..Len(text) |-> lower_char(text[i])]

\* needle in hay
Contains(hay, needle) ==
    \E i \in 1..(Len(hay) - Len(needle) + 1) : SubSeq(hay, i, i + Len(needle) - 1) = needle

NullText == [null |-> TRUE, text |-> <<>>]

Text(t) == [null |-> FALSE, text |-> t]

\* (c.get('description') or '')
OrEmpty(d) == IF d.null THEN <<>> ELSE d.text

\* name and description of a card that the query "bug" finds by its name,
\* by its description only, or not at all
CardTexts(kind) ==
    CASE kind = "name" -> [name |-> <<"a", " ", "B", "u", "g">>, description |-> NullText]
      [] kind = "description" -> [name |-> <<"F", "i", "x">>,
                                  description |-> Text(<<"b", "U", "G", "s">>)]
      [] kind = "null" -> [name |-> <<"F", "i", "x">>, description |-> NullText]
      [] OTHER -> [name |-> <<"b", "u">>, description |-> Text(<<"u", "g">>)]

SearchPatterns == {"all", "none", "alternate", "first", "last"}

\* the kind of the k-th card of a board filled after pattern p
KindAt(p, k, n) ==
    CASE p = "all" -> IF k % 2 = 1 THEN "name" ELSE "description"
      [] p = "none" -> IF k % 2 = 1 THEN "null" ELSE "split"
      [] p = "alternate" -> IF k % 2 = 1 THEN "null" ELSE "name"
      [] p = "first" -> IF k = 1 THEN "description" ELSE "null"
      [] OTHER -> IF k = n THEN "name" ELSE "split"

SearchRemote(n, p) ==
    [InitRemote EXCEPT
       !.cards = [id \in {SearchCardIds[k] : k \in 1..n} |->
                    LET k == CHOOSE i \in 1..n : SearchCardIds[i] = id IN
                    [listId |-> "list1", boardId |-> "board1", writes |-> 0,
                     name |-> CardTexts(KindAt(p, k, n)).name,
                     description |-> CardTexts(KindAt(p, k, n)).description]]]

\* the labels of the board and their names, "Bug" and "Feature"
LabelNames ==
    [label1 |-> <<"B", "u", "g">>,
     label2 |-> <<"F", "e", "a", "t", "u", "r", "e">>]

\* GET boards/{id}, with the cards in the order the server lists them and
\* their texts, and the labels with their names
\* the cards of the server in the order it lists them
ListedCardIds == SearchCardIds \o <<"card1", "card2">>

\* name and description of a card; a card whose texts the server's state
\* leaves out has those the query "bug" finds by the name
TextsOf(card) ==
    IF "name" \in DOMAIN card
    THEN [name |-> card.name, description |-> card.description]
    ELSE CardTexts("name")

RemoteGetBoardListing(r, board_id) ==
    IF board_id \in BoardIds
    THEN LET ids == SelectSeq(ListedCardIds, LAMBDA id : id \in CardsOf(r, board_id)) IN
         Answers(r, [item |-> [id |-> board_id],
                     included |->
                       [cards |-> [i \in 1..Len(ids) |->
                                     [id |-> ids[i], listId |-> r.cards[ids[i]].listId,
                                      boardId |-> board_id,
                                      name |-> TextsOf(r.cards[ids[i]]).name,
                                      description |-> TextsOf(r.cards[ids[i]]).description]],
                        labels |-> {[id |-> l, name |-> LabelNames[l]] : l \in DOMAIN LabelNames},
                        cardLabels |-> {cl \in r.cardLabels : cl[1] \in CardsOf(r, board_id)}]])
    ELSE Refuses(r, "HTTP404")

SEARCH_SHOWN == 10

\* mutant: only the name is searched
matching_cards_by_name(cards, query) ==
    SelectSeq(cards, LAMBDA card : Contains(lower(card.name), lower(query)))

matching_cards(cards, query) ==
    SelectSeq(cards, LAMBDA card :
        \/ Contains(lower(card.name), lower(query))
        \/ Contains(lower(OrEmpty(card.description)), lower(query)))

NoCardsFound(query) ==
    [kind |-> "message", text |-> "No cards found matching query", query |-> query]

\* the list to choose from; it is returned as built
find_multiple(w, matching, len) ==
    IF w.ret.kind = "raise"
    THEN Done(w.cache, w.session, handle_api_error(w.ret.exc))
    ELSE Done(w.cache, w.session,
              Content("matches",
                      [found |-> Len(matching),
                       shown |-> [i \in 1..(IF Len(matching) < SEARCH_SHOWN
                                            THEN Len(matching) ELSE SEARCH_SHOWN) |->
                                     matching[i].id],
                       more |-> IF Len(matching) > SEARCH_SHOWN
                                THEN Len(matching) - SEARCH_SHOWN ELSE 0],
                      len))

\* format_card_detailed or json.dumps; either is returned as built
find_single_format(w, card_detail, response_format, len) ==
    IF w.ret.kind = "raise"
    THEN Done(w.cache, w.session, handle_api_error(w.ret.exc))
    ELSE Done(w.cache, w.session,
              Content(IF response_format = "markdown" THEN "card" ELSE "card_json",
                      [id |-> card_detail.data.item.id], len))

find_single(inst, c, t, card_detail, response_format, len) ==
    IF ~card_detail.ok
    THEN Done(c, card_detail.session, handle_api_error(card_detail.exc))
    ELSE find_single_format(CachedWorkspace(inst, c, t, card_detail.session),
                            card_detail, response_format, len)

find_decide(inst, c, t, s, matching, query, response_format, len) ==
    IF Len(matching) = 0
    THEN Done(c, s, NoCardsFound(query))
    ELSE IF Len(matching) = 1
    THEN find_single(inst, c, t,
                     Send(s, "GET", <<"cards", matching[1].id>>,
                          RemoteGetCard(s.remote, matching[1].id)),
                     response_format, len)
    ELSE find_multiple(CachedWorkspace(inst, c, t, s), matching, len)

find_in_board(inst, c, t, board_detail, query, response_format, len) ==
    IF ~board_detail.ok
    THEN Done(c, board_detail.session, handle_api_error(board_detail.exc))
    ELSE find_decide(inst, c, t, board_detail.session,
                     matching_cards(board_detail.data.included.cards, query),
                     query, response_format, len)

\* no board_id: the boards of the workspace, of which there is one
find_in_workspace(inst, t, w, query, response_format, len) ==
    IF w.ret.kind = "raise"
    THEN Done(w.cache, w.session, handle_api_error(w.ret.exc))
    ELSE find_in_board(inst, w.cache, t,
                       Send(w.session, "GET", <<"boards", TheOne(w.ret.data.boards)>>,
                            RemoteGetBoardListing(w.session.remote,
                                                  TheOne(w.ret.data.boards))),
                       query, response_format, len)

\* mutant: the board named in the call is read through the board-overview tier
planka_find_and_get_card_cached(inst, c, t, s, query, board_id, response_format, len) ==
    IF ~inst.api_client \/ ~inst.cache
    THEN Done(c, s, handle_api_error("RuntimeError: API client or Cache not initialized"))
    ELSE IF board_id # None
    THEN LET k == LookupBoard(c, t, s, board_id,
                              Send(s, "GET", <<"boards", board_id>>,
                                   RemoteGetBoardListing(s.remote, board_id))) IN
         find_in_board(inst, k.cache, t,
                       [session |-> k.session, ok |-> k.ret.kind # "raise",
                        data |-> k.ret.data, exc |-> k.ret.exc],
                       query, response_format, len)
    ELSE find_in_workspace(inst, t, CachedWorkspace(inst, c, t, s),
                           query, response_format, len)

planka_find_and_get_card(inst, c, t, s, query, board_id, response_format, len) ==
    IF ~inst.api_client \/ ~inst.cache
    THEN Done(c, s, handle_api_error("RuntimeError: API client or Cache not initialized"))
    ELSE IF board_id # None
    THEN find_in_board(inst, c, t,
                       Send(s, "GET", <<"boards", board_id>>,
                            RemoteGetBoardListing(s.remote, board_id)),
                       query, response_format, len)
    ELSE find_in_workspace(inst, t, CachedWorkspace(inst, c, t, s),
                           query, response_format, len)

\* the length of the detail or list built: at the limit, and twice as long
SearchLengths == {CHARACTER_LIMIT, 2 * CHARACTER_LIMIT}

Queries == {<<"b", "u", "g">>, <<"B", "U", "G">>, <<"z">>}

\* a search sends at most six requests: the board, the card and the four
\* of a workspace miss; the first, the second and the last are failed
FailsOfSearch == {0, 1, 2, 6}

InitSearch ==
    /\ now = 0
    /\ workspace = NewCache.workspace
    /\ board_overviews = NewCache.board_overviews
    /\ card_details = NewCache.card_details
    /\ stats = NewCache.stats
    /\ ret = Return(NoData)
    /\ fetchCount = 0
    /\ log = <<>>
    /\ instances \in {Started, NotStarted}
    /\ \E n \in 0..MaxCards, p \in SearchPatterns : remote = SearchRemote(n, p)
    /\ history = NoHistory
    /\ inflight = NoneInFlight

SearchFindAndGetCard ==
    /\ history.ops < MaxSearchOps
    /\ \E q \in Queries, b \in BoardIds \cup {None},
          rd \in ResponseFormats \X SearchLengths, fail \in FailsOfSearch :
          ToolReturned("planka_find_and_get_card",
                       [query |-> q, board_id |-> b, response_format |-> rd[1]],
                       planka_find_and_get_card(instances, TheCache, now,
                                                NewSession(remote, fail, TransportFailure),
                                                q, b, rd[1], rd[2]))

NextSearch == SearchFindAndGetCard

SpecSearch == InitSearch /\ [][NextSearch]_vars

(***************************************************************************)
(* The ten tools and nothing else: the calls of SpecTools without the      *)
(* direct user of the board-overview tier, and planka_find_and_get_card    *)
(* among them.                                                             *)
(***************************************************************************)
QueriesOfTools == {<<"b", "u", "g">>, <<"z">>}

ToolFindAndGetCard ==
    /\ history.ops < ToolBudget
    /\ \E q \in QueriesOfTools, b \in BoardIds \cup {None}, fail \in FailsOfSearch :
          ToolReturned("planka_find_and_get_card",
                       [query |-> q, board_id |-> b, response_format |-> "markdown"],
                       planka_find_and_get_card(instances, TheCache, now,
                                                NewSession(remote, fail, TransportFailure),
                                                q, b, "markdown", CHARACTER_LIMIT))

NextTenTools ==
    \/ ToolTick
    \/ ToolGetWorkspace
    \/ ToolListCards
    \/ ToolFindAndGetCard
    \/ ToolGetCard
    \/ ToolCreateCard
    \/ ToolUpdateCard
    \/ ToolAddTask
    \/ ToolUpdateTask
    \/ ToolAddCardLabel
    \/ ToolRemoveCardLabel

SpecTenTools == InitTools /\ [][NextTenTools]_vars

(***************************************************************************)
(* Interleaved calls.  The handlers are coroutines on one event loop: a    *)
(* call runs without interruption until it awaits a request to the server  *)
(* and is resumed, some time after the server has dealt with the request,  *)
(* to run until its next request or its return.  Two coroutines serve the  *)
(* calls.  A get method of PlankaCache is suspended between its miss       *)
(* counter and its assignment of the entry.  The four requests of          *)
(* fetch_workspace_data are taken as one: nothing they read is changed by  *)
(* the calls made here.  instances is set and no request fails in          *)
(* transport.                                                              *)
(***************************************************************************)
Coroutines == {"a", "b"}

MaxAsyncCalls == 3

TtlOf(tier) ==
    CASE tier = "workspace" -> WORKSPACE_TTL
      [] tier = "board_overview" -> BOARD_TTL
      [] tier = "card" -> CARD_TTL

\* a get method up to `data = await fetch_func()`
get_check(c, t, tier, key) ==
    LET e == EntryOf(c, tier, key) IN
    IF e # NoEntry /\ is_valid(e, t)
    THEN [hit |-> TRUE, data |-> e.data,
          cache |-> [c EXCEPT !.stats = Bump(@, HitCounter(tier))]]
    ELSE [hit |-> FALSE, data |-> NoData,
          cache |-> [c EXCEPT !.stats = Bump(@, MissCounter(tier))]]

WithEntry(c, tier, key, e) ==
    CASE tier = "workspace" -> [c EXCEPT !.workspace = e]
      [] tier = "board_overview" -> [c EXCEPT !.board_overviews = DictSet(@, key, e)]
      [] tier = "card" -> [c EXCEPT !.card_details = DictSet(@, key, e)]

\* mutant: an entry that is valid by the time of the store is kept
get_store_keeps_valid(c, t, tier, key, f) ==
    IF ~f.ok
    THEN [cache |-> c, ret |-> Raise(f.exc)]
    ELSE IF EntryOf(c, tier, key) # NoEntry /\ is_valid(EntryOf(c, tier, key), t)
    THEN [cache |-> c, ret |-> Return(f.data)]
    ELSE [cache |-> WithEntry(c, tier, key, CacheEntry(f.data, t, TtlOf(tier))),
          ret |-> Return(f.data)]

\* a get method from the return of fetch_func: it raised, or the entry is
\* assigned with the time of now
get_store(c, t, tier, key, f) ==
    IF f.ok
    THEN [cache |-> WithEntry(c, tier, key, CacheEntry(f.data, t, TtlOf(tier))),
          ret |-> Return(f.data)]
    ELSE [cache |-> c, ret |-> Raise(f.exc)]

\* A coroutine: the call it serves (op, key), where it is suspended (at: a
\* tier whose fetch it awaits, "patch", or "idle"), the key of the entry it
\* will assign (on), what its await will deliver (got), the card it has got
\* so far, and, for the record, history as it was when the call began, the
\* rise of the tier's counters at its check, and the stores it has made.
Idle ==
    [at |-> "idle", op |-> None, key |-> None, on |-> None, got |-> NoFetch,
     card |-> NoData, hist |-> NoHistory, counted |-> [misses |-> 0, hits |-> 0],
     stores |-> <<>>]

NewCall(op, key, h) == [Idle EXCEPT !.op = op, !.key = key, !.hist = h]

Counted(c, after, tier) ==
    [misses |-> after.stats[MissCounter(tier)] - c.stats[MissCounter(tier)],
     hits |-> after.stats[HitCounter(tier)] - c.stats[HitCounter(tier)]]

Awaiting(call, tier, on, got, c, after) ==
    [call EXCEPT !.at = tier, !.on = on, !.got = got, !.counted = Counted(c, after, tier)]

StoreMade(task, c, t, after) ==
    [task EXCEPT !.stores = Append(@, [tier |-> task.at, on |-> task.on, at |-> t,
                                       over |-> EntryOf(c, task.at, task.on),
                                       entry |-> EntryOf(after, task.at, task.on)])]

\* what a step of a coroutine leaves: the cache, the server, the coroutine
\* (suspended, or idle once the call has returned) and what was returned
Suspends(c, r, task) ==
    [cache |-> c, remote |-> r, done |-> FALSE, task |-> task, ret |-> Return(NoData),
     fetches |-> IF task.at \in {"workspace", "board_overview", "card"} THEN 1 ELSE 0]

Finishes(c, r, task, result) ==
    [cache |-> c, remote |-> r, done |-> TRUE, task |-> task, ret |-> result, fetches |-> 0]

Session(r) == NewSession(r, 0, TransportFailure)

\* the rest of a handler once the workspace is there
async_answer(task, w) ==
    IF task.op = "planka_get_card"
    THEN get_card_format(w, task.card, "markdown", CHARACTER_LIMIT).ret
    ELSE get_workspace_format(w, "markdown", CHARACTER_LIMIT).ret

\* await instances.cache.get_workspace(fetch_workspace_data), to its hit
\* and the handler's return, or to its miss and the requests of the fetch
async_workspace(c, t, r, task) ==
    IF get_check(c, t, "workspace", None).hit
    THEN Finishes(get_check(c, t, "workspace", None).cache, r, task,
                  async_answer(task, [cache |-> c, session |-> Session(r),
                                      ret |-> Return(get_check(c, t, "workspace", None).data)]))
    ELSE Suspends(get_check(c, t, "workspace", None).cache, r,
                  Awaiting(task, "workspace", None,
                           AsFetch(fetch_workspace_data(Started, Session(r))),
                           c, get_check(c, t, "workspace", None).cache))

async_workspace_fetched(c, t, r, task) ==
    Finishes(get_store(c, t, "workspace", None, task.got).cache, r,
             StoreMade(task, c, t, get_store(c, t, "workspace", None, task.got).cache),
             async_answer(task, [cache |-> c, session |-> Session(r),
                                 ret |-> get_store(c, t, "workspace", None, task.got).ret]))

\* planka_get_card to the hit of cache.get_card, or to the GET of fetch_card
async_get_card(c, t, r, task) ==
    IF get_check(c, t, "card", task.key).hit
    THEN async_workspace(get_check(c, t, "card", task.key).cache, t, r,
                         [task EXCEPT !.card = get_check(c, t, "card", task.key).data])
    ELSE Suspends(get_check(c, t, "card", task.key).cache, r,
                  Awaiting(task, "card", task.key,
                           AsFetch(fetch_card(Session(r), task.key)),
                           c, get_check(c, t, "card", task.key).cache))

async_card_fetched(c, t, r, task) ==
    IF ~task.got.ok
    THEN Finishes(c, r, task, handle_api_error(task.got.exc))
    ELSE async_workspace(get_store(c, t, "card", task.key, task.got).cache, t, r,
                         [StoreMade(task, c, t, get_store(c, t, "card", task.key, task.got).cache)
                            EXCEPT !.card = task.got.data])

\* planka_update_card to its PATCH, which the server applies
async_update_card(c, r, task) ==
    Suspends(c, Send(Session(r), "PATCH", <<"cards", task.key>>,
                     RemoteUpdateCard(r, task.key, TRUE)).session.remote,
             [task EXCEPT !.at = "patch", !.on = task.key,
                          !.got = Send(Session(r), "PATCH", <<"cards", task.key>>,
                                       RemoteUpdateCard(r, task.key, TRUE))])

async_card_patched(c, r, task) ==
    Finishes(update_card_patched(c, task.key, task.got).cache, r, task,
             update_card_patched(c, task.key, task.got).ret)

\* cache.get_board_overview called by a client of the cache
async_get_board_overview(c, t, r, task) ==
    IF get_check(c, t, "board_overview", task.key).hit
    THEN Finishes(get_check(c, t, "board_overview", task.key).cache, r, task,
                  Content("board", get_check(c, t, "board_overview", task.key).data, 0))
    ELSE Suspends(get_check(c, t, "board_overview", task.key).cache, r,
                  Awaiting(task, "board_overview", task.key,
                           AsFetch(Send(Session(r), "GET", <<"boards", task.key>>,
                                        RemoteGetBoard(r, task.key))),
                           c, get_check(c, t, "board_overview", task.key).cache))

async_board_fetched(c, t, r, task) ==
    Finishes(get_store(c, t, "board_overview", task.key, task.got).cache, r,
             StoreMade(task, c, t, get_store(c, t, "board_overview", task.key, task.got).cache),
             IF task.got.ok
             THEN Content("board", task.got.data, 0)
             ELSE [kind |-> "raised", exc |-> task.got.exc])

\* the number of the write that the PATCH of an update_card call made
WritesAfter(task) == task.got.session.remote.cards[task.key].writes

\* the step of coroutine p came out as out
Stepped(p, out, starts) ==
    /\ SetCache(out.cache)
    /\ remote' = out.remote
    /\ fetchCount' = fetchCount + out.fetches
    /\ inflight' = [inflight EXCEPT ![p] = IF out.done THEN Idle ELSE out.task]
    /\ ret' = IF out.done THEN out.ret ELSE ret
    /\ log' = IF out.done
              THEN <<[op |-> out.task.op, args |-> [card_id |-> out.task.key], at |-> now,
                      ret |-> out.ret, hist |-> out.task.hist, task |-> p,
                      stores |-> out.task.stores]>>
              ELSE log
    /\ history' = [history EXCEPT
                     !.ops = @ + starts,
                     !.confirmed = IF out.done /\ out.task.op = "planka_update_card"
                                      /\ out.ret.kind = "confirmation"
                                      /\ WritesAfter(out.task) > @[out.task.key]
                                   THEN [@ EXCEPT ![out.task.key] = WritesAfter(out.task)]
                                   ELSE @]
    /\ UNCHANGED <<now, instances>>

CanStart(p) == inflight[p].at = "idle" /\ history.ops < MaxAsyncCalls

AsyncInstants == {0, CARD_TTL, WORKSPACE_TTL}

InitAsync ==
    /\ now = 0
    /\ workspace = NewCache.workspace
    /\ board_overviews = NewCache.board_overviews
    /\ card_details = NewCache.card_details
    /\ stats = NewCache.stats
    /\ ret = Return(NoData)
    /\ fetchCount = 0
    /\ log = <<>>
    /\ instances = Started
    /\ remote = InitRemote
    /\ history = NoHistory
    /\ inflight = [p \in Coroutines |-> Idle]

AsyncTick ==
    /\ \E t \in AsyncInstants :
          /\ t > now
          /\ \E e \in EntriesOf(TheCache) : is_valid(e, now)
          /\ now' = t
    /\ UNCHANGED <<cacheVars, ret, fetchCount, log, toolVars>>

AsyncGetCard ==
    \E p \in Coroutines, k \in DOMAIN remote.cards :
        /\ CanStart(p)
        /\ Stepped(p, async_get_card(TheCache, now, remote,
                                     NewCall("planka_get_card", k, history)), 1)

AsyncGetWorkspace ==
    \E p \in Coroutines :
        /\ CanStart(p)
        /\ Stepped(p, async_workspace(TheCache, now, remote,
                                      NewCall("planka_get_workspace", None, history)), 1)

AsyncUpdateCard ==
    \E p \in Coroutines, k \in DOMAIN remote.cards :
        /\ CanStart(p)
        /\ Stepped(p, async_update_card(TheCache, remote,
                                        NewCall("planka_update_card", k, history)), 1)

AsyncGetBoardOverview ==
    \E p \in Coroutines, b \in BoardIds :
        /\ CanStart(p)
        /\ Stepped(p, async_get_board_overview(TheCache, now, remote,
                                               NewCall("get_board_overview", b, history)), 1)

AsyncCardFetched ==
    \E p \in Coroutines :
        /\ inflight[p].at = "card"
        /\ Stepped(p, async_card_fetched(TheCache, now, remote, inflight[p]), 0)

AsyncWorkspaceFetched ==
    \E p \in Coroutines :
        /\ inflight[p].at = "workspace"
        /\ Stepped(p, async_workspace_fetched(TheCache, now, remote, inflight[p]), 0)

AsyncBoardFetched ==
    \E p \in Coroutines :
        /\ inflight[p].at = "board_overview"
        /\ Stepped(p, async_board_fetched(TheCache, now, remote, inflight[p]), 0)

AsyncCardPatched ==
    \E p \in Coroutines :
        /\ inflight[p].at = "patch"
        /\ Stepped(p, async_card_patched(TheCache, remote, inflight[p]), 0)

NextAsync ==
    \/ AsyncTick
    \/ AsyncGetCard
    \/ AsyncGetWorkspace
    \/ AsyncUpdateCard
    \/ AsyncGetBoardOverview
    \/ AsyncCardFetched
    \/ AsyncWorkspaceFetched
    \/ AsyncBoardFetched
    \/ AsyncCardPatched

SpecAsync == InitAsync /\ [][NextAsync]_vars

(***************************************************************************)
(* utils.py on texts and lists: ResponseFormatter.truncate_response with   *)
(* its text and limit, and PaginationHelper.paginate_results.  A call is   *)
(* drawn at the start and the function is applied to it.                   *)
(***************************************************************************)
Min(a, b) == IF a < b THEN a ELSE b

\* seq[a:b] of Python for 0 <= a and 0 <= b
Slice(seq, a, b) ==
    IF a >= Len(seq) \/ b <= a THEN <<>> ELSE SubSeq(seq, a + 1, Min(b, Len(seq)))

\* str.rfind('\n'): the index, from 0, of the last newline, or -1
rfind_newline(text) ==
    LET at == {i \in 1..Len(text) : text[i] = "\n"} IN
    IF at = {} THEN -1 ELSE (CHOOSE i \in at : \A j \in at : j <= i) - 1

NoWarning == [warned |-> FALSE, length |-> 0, limit |-> 0]

\* the warning block, which states the length of the content and the limit
Warning(length, limit) == [warned |-> TRUE, length |-> length, limit |-> limit]

Truncated(text, warning) == [text |-> text, warning |-> warning]

\* mutant: a text as long as the limit is cut too
truncate_text_strict(content, limit) ==
    IF Len(content) < limit
    THEN Truncated(content, NoWarning)
    ELSE Truncated(Slice(content, 0, (limit * 6) \div 10), Warning(Len(content), limit))

\* truncate_response(content, limit); int(limit * 0.6) is (limit * 6) \div 10
\* and last_newline > truncate_at * 0.8 is 10 * last_newline > 8 * truncate_at
truncate_text(content, limit) ==
    IF Len(content) <= limit
    THEN Truncated(content, NoWarning)
    ELSE LET truncate_at == (limit * 6) \div 10
             truncated == Slice(content, 0, truncate_at)
             last_newline == rfind_newline(truncated) IN
         Truncated(IF 10 * last_newline > 8 * truncate_at
                   THEN Slice(truncated, 0, last_newline)
                   ELSE truncated,
                   Warning(Len(content), limit))

\* the texts of n characters with newlines at the positions nl
TextWith(n, nl) == [i \in 1..n |-> IF i \in nl THEN "\n" ELSE "a"]

TruncateCalls ==
    {[op |-> "truncate_response",
      args |-> [content |-> TextWith(n, nl), limit |-> limit],
      returned |-> FALSE] :
        n \in 0..MaxText, limit \in 0..MaxLimit,
        nl \in {x \in SUBSET (1..MaxText) : Cardinality(x) <= 2}}

NoItems == [null |-> TRUE, items |-> <<>>]

Items(n) == [null |-> FALSE, items |-> [i \in 1..n |-> i]]

\* an Optional[int]
NoInt == [null |-> TRUE, value |-> 0]

SomeInt(n) == [null |-> FALSE, value |-> n]

\* total = total or len(items)
total_or_len(total, items) ==
    IF total.null \/ total.value = 0 THEN Len(items) ELSE total.value

\* mutant: the page starts one item late
paginate_skips_one(items, offset, limit, total) ==
    LET them == IF items.null THEN <<>> ELSE items.items
        reported == total_or_len(total, them)
        paginated_items == Slice(them, offset + 1, offset + limit) IN
    [items |-> paginated_items, offset |-> offset, limit |-> limit,
     count |-> Len(paginated_items), total |-> reported,
     has_more |-> offset + limit < reported,
     next_offset |-> IF offset + limit < reported THEN SomeInt(offset + limit) ELSE NoInt]

paginate_results(items, offset, limit, total) ==
    LET them == IF items.null THEN <<>> ELSE items.items
        reported == total_or_len(total, them)
        paginated_items == Slice(them, offset, offset + limit) IN
    [items |-> paginated_items, offset |-> offset, limit |-> limit,
     count |-> Len(paginated_items), total |-> reported,
     has_more |-> offset + limit < reported,
     next_offset |-> IF offset + limit < reported THEN SomeInt(offset + limit) ELSE NoInt]

PaginateCalls ==
    {[op |-> "paginate_results",
      args |-> [items |-> items, offset |-> offset, limit |-> limit, total |-> total],
      returned |-> FALSE] :
        items \in {NoItems} \cup {Items(n) : n \in 0..MaxItems},
        offset \in 0..(MaxItems + 1), limit \in 0..(MaxItems + 1),
        total \in {NoInt} \cup {SomeInt(n) : n \in 0..(MaxItems + 2)}}

\* A map of the context: missing from the context, or holding names by id
MissingMap == [present |-> FALSE, names |-> <<>>]

MapOf(names) == [present |-> TRUE, names |-> names]

\* context.get(map, {}).get(id, {}).get('name', default)
context_name(map, id, default) ==
    IF map.present /\ id \in DOMAIN map.names THEN map.names[id] ELSE default

\* context.get('card_labels', {}).get(card.get('id'), [])
card_label_ids(card_labels, card_id) ==
    IF card_labels.present /\ card_id \in DOMAIN card_labels.names
    THEN card_labels.names[card_id]
    ELSE <<>>

\* ', '.join(names) if names else placeholder
joined_or(names, placeholder) ==
    IF names = <<>>
    THEN [placeholder |-> placeholder, names |-> <<>>]
    ELSE [placeholder |-> "", names |-> names]

NotRendered == [placeholder |-> "not rendered", names |-> <<>>]

\* what format_card_preview, format_card_summary and format_card_detailed
\* write for the foreign keys of the card
format_card(card, context, detail_level) ==
    LET label_ids == card_label_ids(context.card_labels, card.id)
        labels == [i \in 1..Len(label_ids) |-> context_name(context.labels, label_ids[i], "")]
        members == [i \in 1..Len(card.memberIds) |->
                       context_name(context.users, card.memberIds[i], "")] IN
    [kind |-> "formatted",
     list_name |-> context_name(context.lists, card.listId, "Unknown List"),
     labels |-> joined_or(labels, IF detail_level = "detailed" THEN "(No labels)" ELSE "None"),
     members |-> IF detail_level = "preview"
                 THEN NotRendered
                 ELSE joined_or(members, IF detail_level = "detailed"
                                         THEN "(No members assigned)" ELSE "None"),
     comments |-> IF detail_level # "detailed"
                  THEN NotRendered
                  ELSE joined_or([i \in 1..Len(card.comments) |->
                                     context_name(context.users, card.comments[i].userId,
                                                  "Unknown User")],
                                 "(No comments)")]

DetailLevels == {"preview", "summary", "detailed"}

\* a context map that is missing, empty, or holds the one id
PartialMaps(id, name) == {MissingMap, MapOf(<<>>), MapOf(id :> name)}

FormatCalls ==
    {[op |-> "format_card",
      args |-> [card |-> [id |-> "card1", listId |-> "list1", memberIds |-> members,
                          comments |-> comments],
                context |-> [lists |-> lists, labels |-> labels, users |-> users,
                             card_labels |-> card_labels],
                detail_level |-> level],
      returned |-> FALSE] :
        members \in {<<>>, <<"user1">>},
        comments \in {<<>>, <<[userId |-> "user1"]>>},
        lists \in PartialMaps("list1", "To Do"),
        labels \in PartialMaps("label1", "Bug"),
        users \in PartialMaps("user1", "Ann"),
        card_labels \in PartialMaps("card1", <<"label1">>),
        level \in DetailLevels}

InitUtils ==
    /\ now = 0
    /\ workspace = NewCache.workspace
    /\ board_overviews = NewCache.board_overviews
    /\ card_details = NewCache.card_details
    /\ stats = NewCache.stats
    /\ ret = Return(NoData)
    /\ fetchCount = 0
    /\ log \in {<<call>> : call \in TruncateCalls \cup PaginateCalls \cup FormatCalls}
    /\ instances = Started
    /\ remote = InitRemote
    /\ history = NoHistory
    /\ inflight = NoneInFlight

Pending(op) == Len(log) = 1 /\ log[1].op = op /\ ~log[1].returned

Returns(result) ==
    /\ ret' = result
    /\ log' = <<[log[1] EXCEPT !.returned = TRUE]>>
    /\ UNCHANGED <<now, cacheVars, fetchCount, toolVars>>

CallTruncateResponse ==
    /\ Pending("truncate_response")
    /\ Returns(truncate_text(log[1].args.content, log[1].args.limit))

CallPaginateResults ==
    /\ Pending("paginate_results")
    /\ Returns(paginate_results(log[1].args.items, log[1].args.offset,
                                log[1].args.limit, log[1].args.total))

CallFormatCard ==
    /\ Pending("format_card")
    /\ Returns(format_card(log[1].args.card, log[1].args.context, log[1].args.detail_level))

NextUtils ==
    \/ CallTruncateResponse
    \/ CallPaginateResults
    \/ CallFormatCard

SpecUtils == InitUtils /\ [][NextUtils]_vars

(***************************************************************************)
(* handlers/cards.py: planka_list_cards with list_id, label_filter, offset *)
(* and limit, on a board whose cards lie on two lists and carry any of the *)
(* two labels.                                                             *)
(***************************************************************************)
ListIdsOfBoard == {"list1", "list2"}

\* what the board's cards can be: the list each lies on and its labels
CardPlacings == [listId : ListIdsOfBoard, labels : SUBSET DOMAIN LabelNames]

ListingRemote(placings) ==
    [InitRemote EXCEPT
       !.cards = [id \in {SearchCardIds[k] : k \in 1..Len(placings)} |->
                    LET k == CHOOSE i \in 1..Len(placings) : SearchCardIds[i] = id IN
                    [listId |-> placings[k].listId, boardId |-> "board1", writes |-> 0,
                     name |-> <<"F", "i", "x">>, description |-> NullText]],
       !.cardLabels = UNION {{<<SearchCardIds[k], l>> : l \in placings[k].labels} :
                                k \in 1..Len(placings)}]

\* labels_map.get(label_id, {}).get('name', '')
label_name(labels, label_id) ==
    IF \E l \in labels : l.id = label_id
    THEN (CHOOSE l \in labels : l.id = label_id).name
    ELSE <<>>

\* mutant: the filter is compared as it was typed
list_cards_filter_as_typed(cards, included, list_id, label_filter) ==
    LET on_list == IF list_id # None
                   THEN SelectSeq(cards, LAMBDA card : card.listId = list_id)
                   ELSE cards IN
    IF ~label_filter.null /\ label_filter.text # <<>>
    THEN SelectSeq(on_list, LAMBDA card :
            \E cl \in included.cardLabels :
               /\ cl[1] = card.id
               /\ Contains(lower(label_name(included.labels, cl[2])), label_filter.text))
    ELSE on_list

\* the cards left by the filters on list_id and label_filter
list_cards_filter(cards, included, list_id, label_filter) ==
    LET on_list == IF list_id # None
                   THEN SelectSeq(cards, LAMBDA card : card.listId = list_id)
                   ELSE cards IN
    IF ~label_filter.null /\ label_filter.text # <<>>
    THEN SelectSeq(on_list, LAMBDA card :
            \E cl \in included.cardLabels :
               /\ cl[1] = card.id
               /\ Contains(lower(label_name(included.labels, cl[2])),
                           lower(label_filter.text)))
    ELSE on_list

\* format_card_list_markdown(cards, context, detail_level): the header
\* counts the cards it is given
format_card_list_markdown(cards) ==
    IF cards = <<>>
    THEN [header |-> NoInt, cards |-> <<>>]
    ELSE [header |-> SomeInt(Len(cards)), cards |-> [i \in 1..Len(cards) |-> cards[i].id]]

list_cards_page(c, s, paginated, response_format, len) ==
    IF response_format = "markdown"
    THEN Done(c, s,
              truncate_response(
                 Content("cards",
                         [listing |-> format_card_list_markdown(paginated.items),
                          pagination |-> IF paginated.has_more
                                         THEN [count |-> paginated.count,
                                               total |-> paginated.total,
                                               next_offset |-> paginated.next_offset]
                                         ELSE [count |-> 0, total |-> 0, next_offset |-> NoInt]],
                         len)))
    ELSE Done(c, s, handle_api_error(JsonNotImported))

list_cards_filtered(c, board_detail, list_id, label_filter, offset, limit, response_format, len) ==
    IF ~board_detail.ok
    THEN Done(c, board_detail.session, handle_api_error(board_detail.exc))
    ELSE list_cards_page(c, board_detail.session,
            paginate_results([null |-> FALSE,
                              items |-> list_cards_filter(board_detail.data.included.cards,
                                                          board_detail.data.included,
                                                          list_id, label_filter)],
                             offset, limit, NoInt),
            response_format, len)

planka_list_cards_of(inst, c, s, board_id, list_id, label_filter, offset, limit, response_format, len) ==
    IF ~inst.api_client
    THEN Done(c, s, handle_api_error("RuntimeError: API client not initialized"))
    ELSE list_cards_filtered(c, Send(s, "GET", <<"boards", board_id>>,
                                     RemoteGetBoardListing(s.remote, board_id)),
                             list_id, label_filter, offset, limit, response_format, len)

LabelFilters ==
    {NullText, Text(<<"b", "u", "g">>), Text(<<"B", "U", "G">>), Text(<<"e", "a", "t">>)}

Boards(n) == [1..n -> CardPlacings]

\* response_format and the position of the request that fails
ReadsOfListing == {<<"markdown", 0>>, <<"json", 0>>, <<"markdown", 1>>}

InitListing ==
    /\ now = 0
    /\ workspace = NewCache.workspace
    /\ board_overviews = NewCache.board_overviews
    /\ card_details = NewCache.card_details
    /\ stats = NewCache.stats
    /\ ret = Return(NoData)
    /\ fetchCount = 0
    /\ log = <<>>
    /\ instances = Started
    /\ \E n \in 0..MaxListed : \E placings \in Boards(n) : remote = ListingRemote(placings)
    /\ history = NoHistory
    /\ inflight = NoneInFlight

ListingListCards ==
    /\ history.ops < 1
    /\ \E l \in ListIdsOfBoard \cup {None}, f \in LabelFilters,
          offset \in {0, 1}, limit \in {1, MaxListed}, rd \in ReadsOfListing :
          ToolReturned("planka_list_cards",
                       [board_id |-> "board1", list_id |-> l, label_filter |-> f,
                        offset |-> offset, limit |-> limit, response_format |-> rd[1]],
                       planka_list_cards_of(instances, TheCache,
                                            NewSession(remote, rd[2], TransportFailure),
                                            "board1", l, f, offset, limit, rd[1],
                                            CHARACTER_LIMIT))

NextListing == ListingListCards

SpecListing == InitListing /\ [][NextListing]_vars

(***************************************************************************)
(* Vocabulary of the properties.                                           *)
(***************************************************************************)
Tiers == {"workspace", "board_overview", "card"}

IsGet(r) == r.op = "get"

SameKey(r, q) == r.tier = q.tier /\ r.key = q.key

\* j is the first get-or-fetch after call i on the tier and key of call i
NextGetOnKey(i, j) ==
    /\ i < j
    /\ IsGet(log[j])
    /\ SameKey(log[i], log[j])
    /\ \A m \in (i + 1)..(j - 1) : ~(IsGet(log[m]) /\ SameKey(log[i], log[m]))

\* the time-to-live the specification assigns to each tier
SpecTtlOf(tier) == CASE tier = "workspace" -> 300
                     [] tier = "board_overview" -> 180
                     [] tier = "card" -> 60

\* call r fetched, and its fetch function returned: r stored an entry
Stored(r) == IsGet(r) /\ r.fetched = 1 /\ r.fetch.ok

(***************************************************************************)
(* C1.  Cache hit/miss counting.  For each tier and key: of two            *)
(* consecutive get-or-fetch calls on that tier and key, the first storing  *)
(* an entry and the second made less than the tier's TTL later, the fetch  *)
(* function runs exactly once, the tier's miss counter rises by exactly 1  *)
(* and its hit counter by exactly 1, and the second call returns the data  *)
(* the first one stored.                                                   *)
(***************************************************************************)
C1_Pair(i) ==
    /\ i + 1 <= Len(log)
    /\ Stored(log[i])
    /\ IsGet(log[i + 1])
    /\ SameKey(log[i], log[i + 1])
    /\ log[i + 1].at - log[i].at < SpecTtlOf(log[i].tier)

C1_HitMissCounting ==
    \A i \in 1..Len(log) :
        C1_Pair(i) =>
            /\ log[i].fetched + log[i + 1].fetched = 1
            /\ log[i].misses + log[i + 1].misses = 1
            /\ log[i].hits + log[i + 1].hits = 1
            /\ log[i + 1].ret = Return(log[i].after.data)
            /\ log[i].after.data = log[i].fetch.data

C1_Witness ==
    \E i \in 1..Len(log) :
        /\ C1_Pair(i)
        /\ log[i + 1].at > log[i].at
        /\ log[i + 1].hits = 1

(***************************************************************************)
(* C2.  Invalidation.  After invalidate_workspace(), invalidate_board(k)   *)
(* or invalidate_card(k), the next get-or-fetch on that tier and key       *)
(* records a miss and invokes the fetch function, whether the entry was    *)
(* fresh, expired or absent before the invalidation.                       *)
(***************************************************************************)
C2_InvalidationForcesMiss ==
    \A i \in 1..Len(log) : \A j \in 1..Len(log) :
        (log[i].op = "invalidate" /\ NextGetOnKey(i, j)) =>
            /\ log[j].misses = 1
            /\ log[j].hits = 0
            /\ log[j].fetched = 1

\* the entry was fresh when it was invalidated, and the get-or-fetch came
\* while it would still have been fresh
C2_Witness ==
    \E i \in 1..Len(log) : \E j \in 1..Len(log) :
        /\ log[i].op = "invalidate"
        /\ NextGetOnKey(i, j)
        /\ log[i].before # NoEntry
        /\ log[j].at - log[i].before.timestamp < SpecTtlOf(log[i].tier)
        /\ log[j].misses = 1

(***************************************************************************)
(* C3.  Failed fetch.  If the fetch function raises during a get-or-fetch  *)
(* miss on any tier, the exception propagates to the caller unchanged, the *)
(* tier's entry for that key is exactly what it was before the call, and   *)
(* the next get-or-fetch for that key invokes the fetch function again.    *)
(***************************************************************************)
FetchRaised(r) == IsGet(r) /\ r.fetched = 1 /\ ~r.fetch.ok

C3_FailedFetchStoresNothing ==
    \A i \in 1..Len(log) :
        FetchRaised(log[i]) =>
            /\ log[i].ret = Raise(log[i].fetch.exc)
            /\ log[i].after = log[i].before
            /\ \A j \in 1..Len(log) : NextGetOnKey(i, j) => log[j].fetched = 1

\* a fetch raised over an expired entry, and the key was asked for again
C3_Witness ==
    \E i \in 1..Len(log) : \E j \in 1..Len(log) :
        /\ FetchRaised(log[i])
        /\ log[i].before # NoEntry
        /\ NextGetOnKey(i, j)

(***************************************************************************)
(* C4.  Expiry rule.  An entry is valid iff (now - fetched_at) < ttl,      *)
(* strictly: an entry of age 0 is valid, an entry whose age equals its ttl *)
(* is not, nor is one of age ttl + 1; the ttl is 300 s for the workspace,  *)
(* 180 s for a board overview and 60 s for a card.  Observed on every      *)
(* get-or-fetch that finds an entry: it is a hit exactly when the entry is *)
(* younger than the tier's ttl.                                            *)
(***************************************************************************)
Age(r) == r.at - r.before.timestamp

C4_StrictTtl ==
    \A i \in 1..Len(log) :
        LET r == log[i] IN
        /\ (IsGet(r) /\ r.before # NoEntry) =>
              /\ r.before.ttl = SpecTtlOf(r.tier)
              /\ (r.hits = 1) <=> (Age(r) < SpecTtlOf(r.tier))
              /\ (r.misses = 1) <=> (Age(r) >= SpecTtlOf(r.tier))
              /\ Age(r) = 0 => r.hits = 1
              /\ Age(r) = SpecTtlOf(r.tier) => r.misses = 1
              /\ Age(r) = SpecTtlOf(r.tier) + 1 => r.misses = 1

\* an entry found at the age of exactly its ttl
C4_Witness ==
    \E i \in 1..Len(log) :
        /\ IsGet(log[i])
        /\ log[i].before # NoEntry
        /\ Age(log[i]) = SpecTtlOf(log[i].tier)
        /\ log[i].misses = 1

(***************************************************************************)
(* C5.  Eviction.  Whenever the card-detail cache holds more entries than  *)
(* the cap of 100 (the tests fill it with 110 and with 120 entries),       *)
(* cleanup_card_cache leaves exactly 100 entries, and every retained entry *)
(* has a fetch time greater than or equal to that of every discarded one.  *)
(***************************************************************************)
TestedCap == CLEANUP_KEEP

Stamps(d) == {d[i].val.timestamp : i \in 1..Len(d)}

Discarded(r) ==
    {i \in 1..Len(r.dictBefore) : r.dictBefore[i].key \notin DictKeys(r.dictAfter)}

Retained(r) ==
    {i \in 1..Len(r.dictBefore) : r.dictBefore[i].key \in DictKeys(r.dictAfter)}

C5_CleanupTrimsToCap ==
    \A k \in 1..Len(log) :
        LET r == log[k] IN
        (r.op = "cleanup" /\ Len(r.dictBefore) > TestedCap) =>
            /\ Len(r.dictAfter) = TestedCap
            /\ \A i \in Retained(r) : \A j \in Discarded(r) :
                   r.dictBefore[i].val.timestamp >= r.dictBefore[j].val.timestamp

(***************************************************************************)
(* C6.  The card-detail tier is capped: after every write into it (every   *)
(* get_card miss that stores an entry) the number of card-detail entries   *)
(* does not exceed the configured maximum, however many distinct card ids  *)
(* are asked for.                                                          *)
(***************************************************************************)
C6_CardTierCapped == Len(card_details) <= CLEANUP_THRESHOLD

(***************************************************************************)
(* Vocabulary of the tool-level properties.  In SpecTools the last call's  *)
(* record is log[1]; the cache and the server as that call left them are   *)
(* the current ones, the clock being all that moves between two calls.     *)
(***************************************************************************)
Called(op) == Len(log) = 1 /\ log[1].op = op

IsWrite(call) == call.method # "GET"

WriteSucceeded(r) == \E i \in 1..Len(r.calls) : IsWrite(r.calls[i]) /\ r.calls[i].ok

WriteFailed(r) == \E i \in 1..Len(r.calls) : IsWrite(r.calls[i]) /\ ~r.calls[i].ok

Fetched(r, path) ==
    \E i \in 1..Len(r.calls) : r.calls[i].method = "GET" /\ r.calls[i].path = path

\* the answer came back whole: formatted, and not cut by truncate_response
Whole(answer) == answer.kind = "content" /\ ~answer.truncated

CardMisses(r) == stats["card_misses"] - r.before.stats["card_misses"]

CardHits(r) == stats["card_hits"] - r.before.stats["card_hits"]

C8_UpdateThenGet ==
    /\ Called("planka_update_card") /\ log[1].ret.kind = "confirmation"
          => /\ ~DictHas(card_details, log[1].args.card_id)
             /\ log[1].args.namesBoard
                   => ~DictHas(board_overviews, remote.cards[log[1].args.card_id].boardId)
    /\ Called("planka_get_card") /\ log[1].args.card_id \in log[1].hist.updated
          => /\ CardMisses(log[1]) = 1
             /\ CardHits(log[1]) = 0
             /\ Fetched(log[1], <<"cards", log[1].args.card_id>>)

\* a card is read and cached, updated, and read again
C8_Witness ==
    /\ Called("planka_get_card")
    /\ log[1].args.card_id \in log[1].hist.updated
    /\ stats["card_misses"] = 2
    /\ log[1].ret.kind = "content"
    /\ log[1].ret.body.writes = 1
    /\ DictHas(card_details, log[1].args.card_id)

\* C9: Once update_card, add_task, update_task, add_card_label or
\* remove_card_label has confirmed its write to a card, the card tier holds
\* no entry for that card, and no later get_card of the card answers with a
\* detail older than that write.
C9_MutationInvalidatesCard ==
    /\ Len(log) = 1 /\ log[1].op \in CardMutators /\ log[1].ret.kind = "confirmation"
          => ~DictHas(card_details, AffectedCard(log[1].op, log[1].args, remote))
    /\ Called("planka_get_card") /\ log[1].ret.kind = "content"
          => log[1].ret.body.writes >= log[1].hist.confirmed[log[1].args.card_id]

\* C10: When the write of create_card, update_card, add_task, add_card_label
\* or remove_card_label fails, the call removes no entry of the card tier or
\* of the board tier, leaves a workspace entry in place, and returns an error
\* text; and a call that removes an entry has had its write succeed.
WriteGuarded == {"planka_create_card", "planka_update_card", "planka_add_task",
                 "planka_add_card_label", "planka_remove_card_label"}

\* the call took an entry out of some tier
RemovedAnEntry(r) ==
    \/ ~(DictKeys(r.before.card_details) \subseteq DictKeys(card_details))
    \/ ~(DictKeys(r.before.board_overviews) \subseteq DictKeys(board_overviews))
    \/ (r.before.workspace # NoEntry /\ workspace = NoEntry)

C10_FailedWriteKeepsCache ==
    Len(log) = 1 /\ log[1].op \in WriteGuarded
       => LET r == log[1] IN
          /\ WriteFailed(r)
                => /\ card_details = r.before.card_details
                   /\ board_overviews = r.before.board_overviews
                   /\ r.before.workspace # NoEntry => workspace # NoEntry
                   /\ r.ret.kind = "error"
          /\ RemovedAnEntry(r) => WriteSucceeded(r)

\* add_task fails on a card whose detail is cached
C10_Witness ==
    /\ Called("planka_add_task")
    /\ WriteFailed(log[1])
    /\ DictHas(log[1].before.card_details, log[1].args.card_id)
    /\ DictHas(card_details, log[1].args.card_id)
    /\ log[1].ret.kind = "error"

\* the tools that look the workspace up through the cache
WorkspaceConsumers == {"planka_get_workspace", "planka_get_card", "planka_create_card",
                       "planka_add_card_label", "planka_remove_card_label"}

IsAggregation(call) ==
    call.method = "GET" /\ call.path[1] \in {"projects", "users", "boards"}

\* a request of fetch_workspace_data failed in the call
AggregationFailed(r) ==
    /\ r.op \in WorkspaceConsumers
    /\ \E i \in 1..Len(r.calls) : IsAggregation(r.calls[i]) /\ ~r.calls[i].ok

\* the requests of one whole run of fetch_workspace_data, all answered
WholeAggregation ==
    <<[method |-> "GET", path |-> <<"projects">>, ok |-> TRUE],
      [method |-> "GET", path |-> <<"users">>, ok |-> TRUE],
      [method |-> "GET", path |-> <<"projects", "proj1">>, ok |-> TRUE],
      [method |-> "GET", path |-> <<"boards", "board1">>, ok |-> TRUE]>>

\* a snapshot with every part of the workspace in it
Complete(data) ==
    /\ data.projects = ProjectIds
    /\ data.users = {"user1"}
    /\ data.boards = BoardIds
    /\ DOMAIN data.lists = DOMAIN Lists
    /\ data.labels = Labels

\* a get_workspace that found no valid entry
WorkspaceMissed(r) ==
    /\ r.op = "planka_get_workspace"
    /\ r.before.workspace = NoEntry \/ ~is_valid(r.before.workspace, r.at)

\* C11: When a request of fetch_workspace_data fails, the tool returns an
\* error text and the workspace tier is as it was before the call; a
\* get_workspace that finds no valid entry starts the aggregation at its
\* first request and answers only after all four were answered; and every
\* snapshot stored or returned is a complete one.
C11_FailedAggregationStoresNothing ==
    Len(log) = 1 /\ instances.cache
       => LET r == log[1] IN
          /\ AggregationFailed(r)
                => /\ r.ret.kind = "error"
                   /\ workspace = r.before.workspace
          /\ WorkspaceMissed(r)
                => /\ r.calls # <<>>
                   /\ r.calls[1] = [method |-> "GET", path |-> <<"projects">>,
                                    ok |-> r.calls[1].ok]
                   /\ r.ret.kind = "content"
                         => /\ r.calls = WholeAggregation
                            /\ workspace.timestamp = r.at
                            /\ r.ret.body = workspace.data
          /\ workspace # NoEntry => Complete(workspace.data)
          /\ r.op = "planka_get_workspace" /\ r.ret.kind = "content"
                => Complete(r.ret.body)

\* two misses at one instant, the second of which stored: the first failed
C11_Witness ==
    /\ Called("planka_get_workspace")
    /\ log[1].at = 0
    /\ log[1].hist.ops = 1
    /\ stats["workspace_misses"] = 2
    /\ log[1].before.workspace = NoEntry
    /\ log[1].calls = WholeAggregation
    /\ log[1].ret.kind = "content"
    /\ workspace.timestamp = 0

\* the texts that name the dependency a tool found missing
NamesMissingDependency(answer) ==
    /\ answer.kind = "error"
    /\ answer.text = "Error: Unexpected error"
    /\ answer.detail \in {"RuntimeError: API client not initialized",
                          "RuntimeError: Cache not initialized",
                          "RuntimeError: API client or Cache not initialized"}

\* C12: A tool called before startup has set the client and the cache
\* returns (does not raise) an error text naming the missing dependency,
\* sends no request and leaves the cache and its counters alone.
C12_UninitializedReturnsError ==
    Len(log) = 1 /\ instances = NotStarted
       => /\ NamesMissingDependency(log[1].ret)
          /\ log[1].calls = <<>>
          /\ TheCache = log[1].before

\* the text for each class of failure, and what of the exception it carries
TextOfClass(e) ==
    CASE e = "HTTP401" -> [text |-> "Error: Invalid API credentials.", carries |-> ""]
      [] e = "HTTP403" -> [text |-> "Error: You don't have permission to access this resource.",
                           carries |-> ""]
      [] e = "HTTP404" -> [text |-> "Error: Resource not found.", carries |-> ""]
      [] e = "HTTP429" -> [text |-> "Error: Rate limit exceeded.", carries |-> ""]
      [] e = "HTTP500" -> [text |-> "Error: API request failed.", carries |-> e]
      [] e = "TimeoutException" -> [text |-> "Error: Request timed out.", carries |-> ""]
      [] e = "ConnectError" -> [text |-> "Error: Cannot connect to Planka server.", carries |-> ""]
      [] OTHER -> [text |-> "Error: Unexpected error", carries |-> e]

\* the tools; the board-overview client of the cache is not one of them
IsTool(r) == r.op # "get_board_overview"

\* C13: A tool one of whose requests failed returns the text of the class
\* of that failure (401, 403, 404, 429, another status, timeout, connection
\* failure, anything else), which carries the status or the exception where
\* the text has a place for it; the failed request is the tool's last, and
\* a tool none of whose requests failed returns no such text for a request.
C13_FailureClassSelectsText ==
    Len(log) = 1 /\ instances = Started /\ IsTool(log[1])
       => LET r == log[1] IN
          /\ r.raised # None
                => /\ r.ret = ErrorText(TextOfClass(r.raised).text,
                                        TextOfClass(r.raised).carries)
                   /\ ~r.calls[Len(r.calls)].ok
                   /\ \A i \in 1..(Len(r.calls) - 1) : r.calls[i].ok
          /\ r.raised = None => \A i \in 1..Len(r.calls) : r.calls[i].ok

\* the last request of an aggregation answered with a status that has no
\* text of its own
C13_Witness ==
    /\ Called("planka_get_workspace")
    /\ log[1].raised = "HTTP500"
    /\ Len(log[1].calls) = WorkspaceRequests
    /\ log[1].ret = ErrorText("Error: API request failed.", "HTTP500")

\* the characters of the warning block when the length of the content and
\* the limit are written with five digits each
WarningLength == 299

\* the answer is one that truncate_response has let through or cut, and so
\* no longer than the limit and the warning block
PassedTruncation(answer) ==
    answer.kind = "content"
       => /\ answer.truncated \/ answer.len <= CHARACTER_LIMIT
          /\ answer.len + (IF answer.truncated THEN WarningLength ELSE 0)
                <= CHARACTER_LIMIT + WarningLength

\* C14: The answer of a read tool, find_and_get_card's single-match detail
\* and multi-match list included, has passed through truncation: it is no
\* longer than the limit, or it has been cut and carries the warning.
C14_ReadsAreTruncated ==
    Len(log) = 1 => PassedTruncation(log[1].ret)

Returned(op) == Len(log) = 1 /\ log[1].op = op /\ log[1].returned

IsPrefix(p, text) == Len(p) <= Len(text) /\ \A i \in 1..Len(p) : p[i] = text[i]

\* the length of a result of truncate_response whose warning block has w
\* characters
ResultLength(result, w) == Len(result.text) + (IF result.warning.warned THEN w ELSE 0)

\* C15: For every text and every limit from 0 up, truncate_response returns
\* the text unchanged, without warning, when it is no longer than the limit;
\* otherwise a prefix of the text of at most floor(0.6 * limit) characters
\* followed by the warning block, so that the result is never longer than
\* the limit and the warning block together.
C15_TruncateResponse ==
    Returned("truncate_response")
       => LET content == log[1].args.content
              limit == log[1].args.limit IN
          /\ Len(content) <= limit => ret = Truncated(content, NoWarning)
          /\ Len(content) > limit
                => /\ IsPrefix(ret.text, content)
                   /\ Len(ret.text) <= (6 * limit) \div 10
                   /\ ret.warning = Warning(Len(content), limit)
          /\ \A w \in 0..WarningLength : ResultLength(ret, w) <= limit + w

\* a text cut back to its last newline
C15_Witness ==
    /\ Returned("truncate_response")
    /\ ret.warning.warned
    /\ Len(ret.text) < (6 * log[1].args.limit) \div 10
    /\ log[1].args.content[Len(ret.text) + 1] = "\n"

Max(a, b) == IF a > b THEN a ELSE b

\* the list given to paginate_results, null being the empty list
GivenItems == IF log[1].args.items.null THEN <<>> ELSE log[1].args.items.items

\* C16: For every list (null as the empty one), offset >= 0 and limit >= 0,
\* paginate_results returns items[offset : offset + limit] in the order of
\* the list, with count the number of items returned, which is
\* min(limit, max(0, len(items) - offset)); called with offset 0, the length
\* of the list as limit and no total, it returns the list unchanged and
\* has_more false.
C16_PaginateSlice ==
    Returned("paginate_results")
       => LET offset == log[1].args.offset
              limit == log[1].args.limit
              n == Min(limit, Max(0, Len(GivenItems) - offset)) IN
          /\ ret.count = n
          /\ Len(ret.items) = n
          /\ \A i \in 1..n : ret.items[i] = GivenItems[offset + i]
          /\ offset = 0 /\ limit = Len(GivenItems) /\ log[1].args.total.null
                => ret.items = GivenItems /\ ~ret.has_more

\* a page from inside the list that the end of the list cuts short
C16_Witness ==
    /\ Returned("paginate_results")
    /\ log[1].args.offset > 0
    /\ 0 < ret.count /\ ret.count < log[1].args.limit
    /\ ret.items[1] = log[1].args.offset + 1

\* C17: paginate_results reports as total the total supplied whenever one
\* is supplied, a supplied 0 with a list that is not empty included, and
\* the length of the list otherwise; has_more is true iff offset + limit is
\* less than the total reported; next_offset is offset + limit when
\* has_more is true and null otherwise.
C17_PaginateTotal ==
    Returned("paginate_results")
       => LET offset == log[1].args.offset
              limit == log[1].args.limit
              total == log[1].args.total IN
          /\ ret.total = IF total.null THEN Len(GivenItems) ELSE total.value
          /\ ret.has_more <=> offset + limit < ret.total
          /\ ret.next_offset = IF ret.has_more THEN SomeInt(offset + limit) ELSE NoInt

\* the labels a filter selects: "bug" and "BUG" the label "Bug", "eat" the
\* label "Feature"
LabelsSelectedBy(label_filter) ==
    CASE label_filter.text = <<"e", "a", "t">> -> {"label2"}
      [] OTHER -> {"label1"}

\* the card passes the filters of the call
PassesFilters(id, args) ==
    /\ args.list_id # None => remote.cards[id].listId = args.list_id
    /\ ~args.label_filter.null
          => \E l \in LabelsSelectedBy(args.label_filter) : <<id, l>> \in remote.cardLabels

\* the cards of the board that pass the filters, in the order of the board
Matching(args) ==
    SelectSeq(SearchCardIds, LAMBDA id : id \in DOMAIN remote.cards /\ PassesFilters(id, args))

Listed(r) == r.op = "planka_list_cards" /\ r.ret.kind = "content"

\* C18: The header "Cards (N found)" of a markdown listing states the
\* number of cards that pass the filters, before pagination, whatever
\* offset and limit are.
C18_HeaderCountsMatches ==
    Len(log) = 1 /\ Listed(log[1]) /\ ~log[1].ret.body.listing.header.null
       => log[1].ret.body.listing.header.value = Len(Matching(log[1].args))

HoldsBug(card) ==
    \/ card.name = <<"a", " ", "B", "u", "g">>
    \/ card.description = Text(<<"b", "U", "G", "s">>)

\* the cards in scope that the query finds, in the order of the board:
\* "bug" and "BUG" those that hold it, "z" none
Found(query) ==
    SelectSeq(SearchCardIds, LAMBDA id :
        /\ id \in DOMAIN remote.cards
        /\ query # <<"z">>
        /\ HoldsBug(remote.cards[id]))

\* the requests for the detail of a card
DetailFetches(r) == {i \in 1..Len(r.calls) : r.calls[i].path[1] = "cards"}

Searched(r) == r.op = "planka_find_and_get_card" /\ instances = Started

\* C19: With M the number of cards in scope whose name or description (a
\* null description being empty) contains the query ignoring case: M = 0
\* gives the "No cards found" message with the query and no request for a
\* card's detail; M = 1 gives exactly one such request, for that card, and
\* its detail; M >= 2 gives the list of the first min(M, 10) matches in
\* order, with the "... and M-10 more" tail iff M > 10, and no request for
\* a card's detail.
C19_SearchOutcome ==
    Len(log) = 1 /\ Searched(log[1])
       => LET r == log[1]
              found == Found(r.args.query)
              M == Len(found) IN
          /\ M # 1 => DetailFetches(r) = {}
          /\ M = 0 /\ r.raised = None => r.ret = NoCardsFound(r.args.query)
          /\ M = 1 /\ r.raised = None
                => /\ Cardinality(DetailFetches(r)) = 1
                   /\ \A i \in DetailFetches(r) : r.calls[i].path = <<"cards", found[1]>>
                   /\ r.ret.kind = "content"
                   /\ r.ret.of \in {"card", "card_json"}
                   /\ r.ret.body.id = found[1]
          /\ M >= 2 /\ r.raised = None
                => /\ r.ret.kind = "content"
                   /\ r.ret.of = "matches"
                   /\ r.ret.body.found = M
                   /\ r.ret.body.shown = SubSeq(found, 1, Min(M, 10))
                   /\ r.ret.body.more = (IF M > 10 THEN M - 10 ELSE 0)

\* eleven matches, by name and by description in turn: ten shown, one more
C19_Witness ==
    /\ Len(log) = 1 /\ Searched(log[1])
    /\ log[1].args.query = <<"B", "U", "G">>
    /\ log[1].ret.kind = "content"
    /\ log[1].ret.of = "matches"
    /\ Len(log[1].ret.body.shown) = 10
    /\ log[1].ret.body.more = 1
    /\ remote.cards["c02"].description = Text(<<"b", "U", "G", "s">>)

Placeholders ==
    {"Unknown List", "Unknown User", "None", "(No labels)", "(No members assigned)",
     "(No comments)"}

\* the names written are those the context holds; where it holds none, a
\* placeholder stands
Resolved(rendered, ids, map) ==
    \/ rendered = NotRendered
    \/ rendered.placeholder \in Placeholders /\ rendered.names = <<>>
    \/ /\ Len(rendered.names) = Len(ids)
       /\ \A i \in 1..Len(ids) :
             IF map.present /\ ids[i] \in DOMAIN map.names
             THEN rendered.names[i] = map.names[ids[i]]
             ELSE rendered.names[i] \in Placeholders

\* C21: Formatting a card at any detail level, with any of the context maps
\* missing, empty or filled, writes for a listId, a label id, a member id
\* and a comment author that the context does not resolve a literal
\* placeholder ("Unknown ...", "None", "(No ...)"), and the name otherwise.
C21_UnresolvedRendersPlaceholder ==
    Returned("format_card")
       => LET card == log[1].args.card
              context == log[1].args.context IN
          /\ ret.kind = "formatted"
          /\ ret.list_name = IF context.lists.present /\ card.listId \in DOMAIN context.lists.names
                             THEN context.lists.names[card.listId]
                             ELSE "Unknown List"
          /\ Resolved(ret.labels, card_label_ids(context.card_labels, card.id), context.labels)
          /\ Resolved(ret.members, card.memberIds, context.users)
          /\ Resolved(ret.comments, [i \in 1..Len(card.comments) |-> card.comments[i].userId],
                      context.users)

MutatingTools == {"planka_create_card", "planka_update_card", "planka_add_task",
                  "planka_update_task", "planka_add_card_label", "planka_remove_card_label"}

Writes(r) == {i \in 1..Len(r.calls) : IsWrite(r.calls[i])}

C23_AddTaskFindsOrCreatesList ==
    Called("planka_add_task") /\ Len(log[1].calls) > 0
       => LET r == log[1] IN
          /\ r.calls[1].method = "GET"
          /\ r.calls[1].path = <<"cards", r.args.card_id>>
          /\ r.ret.kind = "confirmation"
                => /\ Cardinality(Writes(r)) \in {1, 2}
                   /\ r.calls[Len(r.calls)].path[1] # "cards"

\* the workspace lookup of the call gave a snapshot, and it has no such list
ListAbsent(r) ==
    /\ r.op = "planka_create_card"
    /\ \A i \in 1..Len(r.calls) : r.calls[i].method = "GET" => r.calls[i].ok
    /\ workspace.data # NoData
    /\ r.args.list_id \notin DOMAIN workspace.data.lists

\* C24: create_card with a list_id that the workspace snapshot does not hold
\* returns the "List ID not found" text naming the id, sends no write
\* request, and leaves every board-overview and card-detail entry in place.
C24_AbsentListWritesNothing ==
    Len(log) = 1 /\ ListAbsent(log[1])
       => /\ log[1].ret = ErrorText("Error: List ID not found.", log[1].args.list_id)
          /\ Writes(log[1]) = {}
          /\ card_details = log[1].before.card_details
          /\ board_overviews = log[1].before.board_overviews

\* the list is refused while an overview of the board is cached
C24_Witness ==
    /\ Len(log) = 1 /\ ListAbsent(log[1])
    /\ Len(log[1].before.board_overviews) > 0
    /\ Len(board_overviews) > 0
    /\ log[1].ret.kind = "error"

\* C28: Whenever the POST of add_card_label was answered, the card-detail
\* tier holds no entry for the card when the tool returns, whatever it
\* returns.
C28_LabelledCardLeavesCache ==
    Called("planka_add_card_label") /\ WriteSucceeded(log[1])
       => ~DictHas(card_details, log[1].args.card_id)

BoardReaders == {"planka_list_cards", "planka_find_and_get_card"}

\* C29: Under the ten tools the board-overview tier stays empty and its
\* counters stay 0: an invalidate_board of create_card or update_card finds
\* nothing to remove, and every list_cards or find_and_get_card call that
\* returns an answer has sent the GET of the board.
C29_BoardTierNeverPopulated ==
    /\ board_overviews = <<>>
    /\ stats.board_overview_hits = 0
    /\ stats.board_overview_misses = 0
    /\ Len(log) = 1 /\ log[1].op \in BoardReaders /\ log[1].ret.kind # "error"
          => \E b \in BoardIds : Fetched(log[1], <<"boards", b>>)

\* a board read again by the search after a card was created on it
C29_Witness ==
    /\ Called("planka_find_and_get_card")
    /\ log[1].args.board_id # None
    /\ log[1].hist.created # {}
    /\ log[1].ret.kind = "content"
    /\ Fetched(log[1], <<"boards", log[1].args.board_id>>)

KeysOf(tier) ==
    CASE tier = "workspace" -> {None}
      [] tier = "board_overview" -> BoardIds
      [] tier = "card" -> CardIds

\* every call that was served from the cache found an entry younger than
\* the tier's TTL, returned its data and left it as it was
HitsAreFresh ==
    \A i \in 1..Len(log) :
        LET r == log[i] IN
        IsGet(r) /\ r.fetched = 0
           => /\ r.before # NoEntry
              /\ r.at - r.before.timestamp < SpecTtlOf(r.tier)
              /\ r.ret = Return(r.before.data)
              /\ r.after = r.before

\* an entry of the map changes or goes only in an invalidation of its key
\* or in a miss on its key that found it expired and stored over it
EntryOutlives(tier, key) ==
    LET e == EntryOf(TheCache, tier, key) IN
    e # NoEntry /\ EntryOf(TheCache, tier, key)' # e
       => /\ Len(log') = Len(log) + 1
          /\ LET r == log'[Len(log')] IN
             /\ r.tier = tier /\ r.key = key
             /\ \/ r.op = "invalidate"
                \/ Stored(r) /\ ~is_valid(e, now)

\* C26: Staleness is bounded by the TTL and expiry is lazy.  A get-or-fetch
\* returns cached data only when fewer than TTL seconds have passed since
\* the entry was stored; a hit leaves the entry's fetch time as it is; and
\* an entry, expired or not, stays in its map until a miss on its key
\* stores over it or an invalidation removes it.
C26_LazyExpiry ==
    /\ []HitsAreFresh
    /\ [][\A tier \in Tiers : \A key \in KeysOf(tier) : EntryOutlives(tier, key)]_vars

\* a hit some time after the store, and later the same entry, expired,
\* still in its map
C26_Witness ==
    \E i \in 1..Len(log) :
        /\ IsGet(log[i]) /\ log[i].fetched = 0
        /\ log[i].at > log[i].before.timestamp
        /\ EntryOf(TheCache, log[i].tier, log[i].key) = log[i].before
        /\ ~is_valid(log[i].before, now)

\* coroutines p and q are both suspended in a get method of the tier, on
\* the same key: both began before either has stored
BothInFlight(p, q, tier) ==
    /\ p # q
    /\ inflight[p].at = tier /\ inflight[q].at = tier
    /\ inflight[p].on = inflight[q].on

\* each of the two counted a miss and no hit, and each ran its fetch
\* function, whose result it is waiting for
BothMissed ==
    \A p \in Coroutines, q \in Coroutines, tier \in Tiers :
        BothInFlight(p, q, tier)
           => /\ inflight[p].counted = [misses |-> 1, hits |-> 0]
              /\ inflight[q].counted = [misses |-> 1, hits |-> 0]
              /\ inflight[p].got # NoFetch /\ inflight[q].got # NoFetch
              /\ fetchCount >= 2

\* a coroutine that comes back from a fetch that returned assigns the
\* entry, whatever the map holds by then
StoresOnReturn(p) ==
    \A tier \in Tiers : \A key \in KeysOf(tier) :
        /\ inflight[p].at = tier /\ inflight[p].on = key
        /\ inflight'[p] # inflight[p] /\ inflight[p].got.ok
        => EntryOf(TheCache, tier, key)' =
              [data |-> inflight[p].got.data, timestamp |-> now, ttl |-> SpecTtlOf(tier)]

\* C25: No mutual exclusion guards a miss.  Two get-or-fetch calls on one
\* tier and key that have both begun before either has stored have both
\* counted a miss (2 misses, 0 hits for the pair) and both run the fetch
\* function; each stores when its fetch returns, so that the map holds the
\* entry of the store that ran last.
C25_ConcurrentMissesBothStore ==
    /\ []BothMissed
    /\ [][\A p \in Coroutines : StoresOnReturn(p)]_vars

\* the second of two concurrent misses has stored over the valid entry of
\* the first, and the tier has counted two misses and no hit
C25_Witness ==
    /\ Len(log) = 1
    /\ \E i \in 1..Len(log[1].stores) :
          LET st == log[1].stores[i] IN
          /\ st.over # NoEntry
          /\ is_valid(st.over, st.at)
          /\ EntryOf(TheCache, st.tier, st.on) = st.entry
          /\ stats[MissCounter(st.tier)] = 2
          /\ stats[HitCounter(st.tier)] = 0

\* C27: Once update_card has confirmed a write to a card, no get_card of
\* that card that begins afterwards answers with a detail read from the
\* server before that write, whatever other calls are in flight.
C27_NoStaleReadAfterUpdate ==
    Called("planka_get_card") /\ log[1].ret.kind = "content"
       => log[1].ret.body.writes >= log[1].hist.confirmed[log[1].args.card_id]

\* C30: No tool call invalidates or overwrites a workspace snapshot that is
\* still valid: from its store until 300 s later the entry stays as it is.
C30_ValidSnapshotStays ==
    [][workspace # NoEntry /\ is_valid(workspace, now) => workspace' = workspace]_vars

====
